---------------------------- MODULE Spec2Model ----------------------------
(***************************************************************************)
(* Argument reconciliation and content sanitization of claude-code-action. *)
(*                                                                         *)
(* A string is a sequence of characters.  A character is a TLA+ string: a  *)
(* single character (" ", ",", "-", the quote marks) or a word such as     *)
(* "allowedTools" or "Edit", which stands for its letters: no pattern of   *)
(* the code tells the letters of one of these words apart, so every        *)
(* operation below treats a word as the code treats its letters.           *)
(*                                                                         *)
(* An optional value (T | undefined, T | null) is a sequence of at most    *)
(* one element: <<>> is undefined/null, <<v>> is the value v.              *)
(***************************************************************************)
EXTENDS Integers, Sequences, FiniteSets, TLC

\* ------------------------------------------------------------------ bounds

\* The number of shell words appended to claudeArgs.
MaxPieces == 4

\* The most fragments a piece of untrusted text is composed of.
MaxFragments == 3

\* The most entries of a plugins input.
MaxEntries == 3

\* The most characters of a plugin name handed to validatePluginName.
MaxNameLen == 4

\* ------------------------------------------------------------- characters

DQ == "\""
SQ == "'"
SP == " "
COMMA == ","
DASH == "-"

None == <<>>
Some(v) == <<v>>

NL == "\n"

\* \s
IsSpace(c) == c \in {SP, NL}

\* String.prototype.startsWith
StartsWith(s, p) ==
    /\ Len(s) >= Len(p)
    /\ SubSeq(s, 1, Len(p)) = p

DashDash == <<DASH, DASH>>

\* String.prototype.trim: whitespace removed at both ends.
RECURSIVE TrimLeft(_)
TrimLeft(s) ==
    IF s # <<>> /\ IsSpace(Head(s)) THEN TrimLeft(Tail(s)) ELSE s

RECURSIVE TrimRight(_)
TrimRight(s) ==
    IF s # <<>> /\ IsSpace(s[Len(s)]) THEN TrimRight(SubSeq(s, 1, Len(s) - 1)) ELSE s

Trim(s) == TrimRight(TrimLeft(s))

\* String.prototype.split(","): the pieces between the commas, empty pieces
\* included; the split of the empty string is one empty piece.
RECURSIVE SplitFrom(_, _)
SplitFrom(s, cur) ==
    IF s = <<>> THEN <<cur>>
    ELSE IF Head(s) = COMMA THEN <<cur>> \o SplitFrom(Tail(s), <<>>)
    ELSE SplitFrom(Tail(s), Append(cur, Head(s)))

Split(s) == SplitFrom(s, <<>>)

\* value.split(",").map((t) => t.trim())
SplitTrim(s) == [i \in DOMAIN Split(s) |-> Trim(Split(s)[i])]

\* [...new Set(xs)]: each element at its first position only.
RECURSIVE DedupFrom(_, _)
DedupFrom(xs, seen) ==
    IF xs = <<>> THEN <<>>
    ELSE IF Head(xs) \in seen THEN DedupFrom(Tail(xs), seen)
    ELSE <<Head(xs)>> \o DedupFrom(Tail(xs), seen \cup {Head(xs)})

Dedup(xs) == DedupFrom(xs, {})

\* -------------------------------------------------- shell-quote's parse
\* The tokenizer of the shell-quote package, for strings over whitespace,
\* the two quote marks and characters that are none of its meta, escape,
\* variable, glob or comment characters.  Its chunker matches, left to
\* right, maximal runs of barewords and closed quoted spans; a character no
\* match covers (whitespace, a quote mark that is never closed) is skipped.

IsBare(c) == ~IsSpace(c) /\ c \notin {DQ, SQ}

\* The index of the first c in s at or after i, 0 when there is none.
RECURSIVE IndexFrom(_, _, _)
IndexFrom(s, c, i) ==
    IF i > Len(s) THEN 0
    ELSE IF s[i] = c THEN i
    ELSE IndexFrom(s, c, i + 1)

\* The index after the longest chunk that starts at i (i when none does).
RECURSIVE ChunkEnd(_, _)
ChunkEnd(s, i) ==
    IF i > Len(s) THEN i
    ELSE IF IsBare(s[i]) THEN ChunkEnd(s, i + 1)
    ELSE IF s[i] \in {DQ, SQ} /\ IndexFrom(s, s[i], i + 1) # 0
         THEN ChunkEnd(s, IndexFrom(s, s[i], i + 1) + 1)
    ELSE i

\* The scanner over one chunk: the quote marks removed, the rest kept.
RECURSIVE Unquote(_, _)
Unquote(s, quote) ==
    IF s = <<>> THEN <<>>
    ELSE IF quote # None
         THEN IF Head(s) = quote[1] THEN Unquote(Tail(s), None)
              ELSE <<Head(s)>> \o Unquote(Tail(s), quote)
    ELSE IF Head(s) \in {DQ, SQ} THEN Unquote(Tail(s), Some(Head(s)))
    ELSE <<Head(s)>> \o Unquote(Tail(s), None)

RECURSIVE ParseFrom(_, _)
ParseFrom(s, i) ==
    IF i > Len(s) THEN <<>>
    ELSE IF ChunkEnd(s, i) = i THEN ParseFrom(s, i + 1)
    ELSE <<Unquote(SubSeq(s, i, ChunkEnd(s, i) - 1), None)>>
             \o ParseFrom(s, ChunkEnd(s, i))

parseShellArgs(s) == ParseFrom(s, 1)

\* ------------------------------------------- parseClaudeArgsToExtraArgs

ACCUMULATING_FLAGS == {<<"allowedTools">>, <<"disallowedTools">>}

EmptyTable == [k \in {} |-> None]

\* result[flag] = v
Put(result, flag, v) ==
    [k \in DOMAIN result \cup {flag} |-> IF k = flag THEN v ELSE result[k]]

\* delete result[flag]
Delete(result, flag) == [k \in DOMAIN result \ {flag} |-> result[k]]

\* result[flag] is truthy: present, not null, not the empty string.
Truthy(result, flag) ==
    /\ flag \in DOMAIN result
    /\ result[flag] # None
    /\ result[flag][1] # <<>>

\* The value a flag with a value token gets (lines 40-45).
SetValue(result, flag, nextArg) ==
    IF flag \in ACCUMULATING_FLAGS /\ Truthy(result, flag)
    THEN Some(result[flag][1] \o <<COMMA>> \o nextArg)
    ELSE Some(nextArg)

\* The for loop over the tokens (lines 32-51).
RECURSIVE WalkArgs(_, _, _)
WalkArgs(args, i, result) ==
    IF i > Len(args) THEN result
    ELSE IF StartsWith(args[i], DashDash)
         THEN LET flag == SubSeq(args[i], 3, Len(args[i]))
              IN  IF /\ i + 1 <= Len(args)
                     /\ args[i + 1] # <<>>
                     /\ ~StartsWith(args[i + 1], DashDash)
                  THEN WalkArgs(args, i + 2,
                                Put(result, flag, SetValue(result, flag, args[i + 1])))
                  ELSE WalkArgs(args, i + 1, Put(result, flag, None))
    ELSE WalkArgs(args, i + 1, result)

parseClaudeArgsToExtraArgs(claudeArgs) ==
    IF Trim(claudeArgs) = <<>> THEN EmptyTable
    ELSE WalkArgs(parseShellArgs(claudeArgs), 1, EmptyTable)


\* ------------------------------------------------------- parseSdkOptions

AllowedKey == <<"allowedTools">>
DisallowedKey == <<"disallowedTools">>
ModelKey == <<"model">>
JsonSchemaKey == <<"json-schema">>

\* extraArgs[key] ? extraArgs[key].split(",").map((t) => t.trim()) : []
ExtraArgsTools(extraArgs, key) ==
    IF Truthy(extraArgs, key) THEN SplitTrim(extraArgs[key][1]) ELSE <<>>

\* options.x ? options.x.split(",").map((t) => t.trim()) : []
DirectTools(opt) ==
    IF opt # None /\ opt[1] # <<>> THEN SplitTrim(opt[1]) ELSE <<>>

\* [...new Set([...extraArgsTools, ...directTools])]
MergeTools(extraArgs, key, opt) ==
    Dedup(ExtraArgsTools(extraArgs, key) \o DirectTools(opt))

\* merged.length > 0 ? merged : undefined
OrUndefined(merged) == IF Len(merged) > 0 THEN Some(merged) ELSE None

\* Variant: the two deletes left out.
PassThroughKeepAll(extraArgs) == extraArgs

\* Variant: boolean (null-valued) flags dropped as well.
PassThroughDropBoolean(extraArgs) ==
    [k \in {f \in DOMAIN extraArgs \ {AllowedKey, DisallowedKey} : extraArgs[f] # None}
        |-> extraArgs[k]]

\* Variant: the model key deleted as well.
PassThroughStructuredWins(extraArgs) ==
    Delete(Delete(Delete(extraArgs, AllowedKey), DisallowedKey), ModelKey)

\* delete extraArgs["allowedTools"]; delete extraArgs["disallowedTools"]
PassThrough(extraArgs) == Delete(Delete(extraArgs, AllowedKey), DisallowedKey)

\* parseInt(s, 10) of a string of decimal digits.
DigitValue(c) ==
    CASE c = "0" -> 0 [] c = "1" -> 1 [] c = "2" -> 2 [] c = "3" -> 3
      [] c = "4" -> 4 [] c = "5" -> 5 [] c = "6" -> 6 [] c = "7" -> 7
      [] c = "8" -> 8 [] c = "9" -> 9

RECURSIVE ParseIntFrom(_, _)
ParseIntFrom(s, acc) ==
    IF s = <<>> THEN acc ELSE ParseIntFrom(Tail(s), 10 * acc + DigitValue(Head(s)))

parseInt(s) == ParseIntFrom(s, 0)

\* options: claudeArgs, and the direct inputs allowedTools, disallowedTools,
\* model and maxTurns, each optional.
parseSdkOptions(options) ==
    LET extraArgs == parseClaudeArgsToExtraArgs(options.claudeArgs)
    IN  [ sdkOptions |->
            [ model |-> options.model,
              maxTurns |-> IF options.maxTurns # None /\ options.maxTurns[1] # <<>>
                           THEN Some(parseInt(options.maxTurns[1])) ELSE None,
              allowedTools |->
                  OrUndefined(MergeTools(extraArgs, AllowedKey, options.allowedTools)),
              disallowedTools |->
                  OrUndefined(MergeTools(extraArgs, DisallowedKey, options.disallowedTools)),
              extraArgs |-> PassThrough(extraArgs) ],
          hasJsonSchema |-> JsonSchemaKey \in DOMAIN extraArgs ]

\* ----------------------------------------------------- parseAllowedTools

AllowedToolsFlag == <<DASH, DASH, "allowedTools">>

\* The index after the whitespace run that starts at i.
RECURSIVE SkipSpace(_, _)
SkipSpace(s, i) ==
    IF i <= Len(s) /\ IsSpace(s[i]) THEN SkipSpace(s, i + 1) ELSE i

\* The index after the run of characters other than whitespace from i.
RECURSIVE SkipNonSpace(_, _)
SkipNonSpace(s, i) ==
    IF i <= Len(s) /\ ~IsSpace(s[i]) THEN SkipNonSpace(s, i + 1) ELSE i

\* /--allowedTools\s+/ matched at p: the index after it, 0 when it fails.
AfterFlag(s, p) ==
    LET q == p + Len(AllowedToolsFlag)
    IN  IF /\ q - 1 <= Len(s)
           /\ SubSeq(s, p, q - 1) = AllowedToolsFlag
           /\ SkipSpace(s, q) > q
        THEN SkipSpace(s, q) ELSE 0

\* /--allowedTools\s+"([^"]+)"/ and /--allowedTools\s+'([^']+)'/ matched at
\* p: the captured group, None when the pattern does not match there.
QuotedAt(s, p, quote) ==
    LET r == AfterFlag(s, p)
        e == IF r = 0 THEN 0 ELSE IndexFrom(s, quote, r + 1)
    IN  IF r # 0 /\ r <= Len(s) /\ s[r] = quote /\ e > r + 1
        THEN Some(SubSeq(s, r + 1, e - 1)) ELSE None

\* /--allowedTools\s+([^\s]+)/ matched at p.
UnquotedAt(s, p) ==
    LET r == AfterFlag(s, p)
    IN  IF r # 0 /\ r <= Len(s)
        THEN Some(SubSeq(s, r, SkipNonSpace(s, r) - 1)) ELSE None

\* The three patterns, in the order the code tries them.
PatternAt(s, p, n) ==
    CASE n = 1 -> QuotedAt(s, p, DQ)
      [] n = 2 -> QuotedAt(s, p, SQ)
      [] n = 3 -> UnquotedAt(s, p)

\* claudeArgs.match(pattern): the group of the leftmost match.
RECURSIVE MatchFrom(_, _, _)
MatchFrom(s, p, n) ==
    IF p > Len(s) THEN None
    ELSE IF PatternAt(s, p, n) # None THEN PatternAt(s, p, n)
    ELSE MatchFrom(s, p + 1, n)

Match(s, n) == MatchFrom(s, 1, n)

\* The loop over the patterns (lines 10-19).
RECURSIVE TryPatterns(_, _)
TryPatterns(s, n) ==
    IF n > 3 THEN <<>>
    ELSE IF Match(s, n) # None
         THEN IF StartsWith(Match(s, n)[1], DashDash) THEN <<>>
              ELSE SplitTrim(Match(s, n)[1])
    ELSE TryPatterns(s, n + 1)

parseAllowedTools(claudeArgs) == TryPatterns(claudeArgs, 1)


\* ------------------------------------------------------ prepareRunConfig

BASE_ARGS ==
    << <<DASH, DASH, "verbose">>, <<DASH, DASH, "output-format">>, <<"stream-json">> >>

\* Variant: the user's arguments pushed after BASE_ARGS.
prepareRunConfigBaseFirst(opts) ==
    [ claudeArgs |->
        << <<DASH, "p">> >>
            \o BASE_ARGS
            \o (IF Trim(opts.claudeArgs) # <<>> THEN parseShellArgs(opts.claudeArgs)
                ELSE <<>>) ]

prepareRunConfig(opts) ==
    [ claudeArgs |->
        << <<DASH, "p">> >>
            \o (IF Trim(opts.claudeArgs) # <<>> THEN parseShellArgs(opts.claudeArgs)
                ELSE <<>>)
            \o BASE_ARGS ]

\* ------------------------------------------------------ sanitizeContent
\* The sanitization pipeline.  In content a word of digits ("60") is one
\* character, and so is the run of alphanumerics after a token prefix
\* ("T36": 36 of them).

\* p occurs in s at i.
SubAt(s, i, p) ==
    /\ i >= 1
    /\ i + Len(p) - 1 <= Len(s)
    /\ SubSeq(s, i, i + Len(p) - 1) = p

\* The index of the first occurrence of p in s at or after i, 0 when none.
RECURSIVE FindSub(_, _, _)
FindSub(s, p, i) ==
    IF i + Len(p) - 1 > Len(s) THEN 0
    ELSE IF SubAt(s, i, p) THEN i
    ELSE FindSub(s, p, i + 1)

\* s[i], and a character that is none when i is outside s.
CharAt(s, i) == IF i >= 1 /\ i <= Len(s) THEN s[i] ELSE ""

CommentOpen == <<"<", "!", "-", "-">>
CommentClose == <<"-", "-", ">">>

\* A comment opens at i and is closed: the index of its closing -->.
CommentCloseAt(s, i) ==
    IF SubAt(s, i, CommentOpen) THEN FindSub(s, CommentClose, i + Len(CommentOpen)) ELSE 0

\* CommentStripper: every <!-- ... --> span is deleted.
RECURSIVE StripCommentsFrom(_, _)
StripCommentsFrom(s, i) ==
    IF i > Len(s) THEN <<>>
    ELSE IF CommentCloseAt(s, i) # 0
         THEN StripCommentsFrom(s, CommentCloseAt(s, i) + Len(CommentClose))
    ELSE <<s[i]>> \o StripCommentsFrom(s, i + 1)

stripHtmlComments(s) == StripCommentsFrom(s, 1)

\* Zero-width space, soft hyphen, a bidi override, two C0 controls.
InvisibleChars == {"ZWSP", "SHY", "RLO", "NUL", "BS"}

IsVisible(c) == c \notin InvisibleChars

\* Variant: ordinary spaces deleted as well.
stripInvisibleCharactersAndSpace(s) == SelectSeq(s, LAMBDA c : IsVisible(c) /\ c # SP)

\* CharacterFilter
stripInvisibleCharacters(s) == SelectSeq(s, IsVisible)

\* ![<alt>](<url>) starts at i: the indexes of its ] and its ).
ImageAt(s, i) ==
    LET close == IF CharAt(s, i) = "!" /\ CharAt(s, i + 1) = "["
                 THEN IndexFrom(s, "]", i + 2) ELSE 0
        paren == IF close # 0 /\ CharAt(s, close + 1) = "("
                 THEN IndexFrom(s, ")", close + 2) ELSE 0
    IN  IF paren # 0 THEN Some(<<close, paren>>) ELSE None

\* MarkupNeutralizer (images): ![<alt>](<url>) becomes ![](<url>).
RECURSIVE StripAltFrom(_, _)
StripAltFrom(s, i) ==
    IF i > Len(s) THEN <<>>
    ELSE IF ImageAt(s, i) # None
         THEN <<"!", "[">> \o SubSeq(s, ImageAt(s, i)[1][1], ImageAt(s, i)[1][2])
                  \o StripAltFrom(s, ImageAt(s, i)[1][2] + 1)
    ELSE <<s[i]>> \o StripAltFrom(s, i + 1)

stripMarkdownImageAltText(s) == StripAltFrom(s, 1)

\* The index after the run of url characters from i.
RECURSIVE SkipUrl(_, _)
SkipUrl(s, i) ==
    IF i <= Len(s) /\ ~IsSpace(s[i]) /\ s[i] # ")" THEN SkipUrl(s, i + 1) ELSE i

\* [<text>](<url> "<title>") starts at i: the index after its url and the
\* index of its ).
LinkTitleAt(s, i) ==
    LET close == IF CharAt(s, i) = "[" THEN IndexFrom(s, "]", i + 1) ELSE 0
        url == IF close # 0 /\ CharAt(s, close + 1) = "(" THEN close + 2 ELSE 0
        urlEnd == IF url # 0 THEN SkipUrl(s, url) ELSE 0
        quote == IF urlEnd > url /\ SkipSpace(s, urlEnd) > urlEnd
                 THEN SkipSpace(s, urlEnd) ELSE 0
        titleEnd == IF quote # 0 /\ CharAt(s, quote) \in {DQ, SQ}
                    THEN IndexFrom(s, s[quote], quote + 1) ELSE 0
    IN  IF titleEnd # 0 /\ CharAt(s, titleEnd + 1) = ")"
        THEN Some(<<urlEnd, titleEnd + 1>>) ELSE None

\* MarkupNeutralizer (links): the title goes, the link stays.
RECURSIVE StripTitlesFrom(_, _)
StripTitlesFrom(s, i) ==
    IF i > Len(s) THEN <<>>
    ELSE IF LinkTitleAt(s, i) # None
         THEN SubSeq(s, i, LinkTitleAt(s, i)[1][1] - 1) \o <<")">>
                  \o StripTitlesFrom(s, LinkTitleAt(s, i)[1][2] + 1)
    ELSE <<s[i]>> \o StripTitlesFrom(s, i + 1)

stripMarkdownLinkTitles(s) == StripTitlesFrom(s, 1)

\* alt, title, aria-label, placeholder and the data-* attributes.
HiddenAttributes == {"alt", "title", "aria-label", "placeholder", "data-x"}

\* i is inside a tag: a < is before it with no > in between.
RECURSIVE InTag(_, _)
InTag(s, i) ==
    IF i < 1 THEN FALSE
    ELSE IF s[i] = "<" THEN TRUE
    ELSE IF s[i] = ">" THEN FALSE
    ELSE InTag(s, i - 1)

\* The index after the run of bare attribute value characters from i.
RECURSIVE SkipBareValue(_, _)
SkipBareValue(s, i) ==
    IF i <= Len(s) /\ ~IsSpace(s[i]) /\ s[i] # ">" THEN SkipBareValue(s, i + 1) ELSE i

\* Whitespace, a hidden attribute's name, = and its value start at i, in a
\* tag: the index of the value's last character, 0 when there is none.
HiddenAttrAt(s, i) ==
    LET eq == IF IsSpace(CharAt(s, i)) /\ CharAt(s, i + 1) \in HiddenAttributes
                 /\ InTag(s, i)
              THEN SkipSpace(s, i + 2) ELSE 0
        val == IF eq # 0 /\ CharAt(s, eq) = "=" THEN SkipSpace(s, eq + 1) ELSE 0
    IN  IF val = 0 \/ val > Len(s) THEN 0
        ELSE IF s[val] \in {DQ, SQ} THEN IndexFrom(s, s[val], val + 1)
        ELSE IF SkipBareValue(s, val) > val THEN SkipBareValue(s, val) - 1
        ELSE 0

\* MarkupNeutralizer (attributes)
RECURSIVE StripAttrsFrom(_, _)
StripAttrsFrom(s, i) ==
    IF i > Len(s) THEN <<>>
    ELSE IF HiddenAttrAt(s, i) # 0 THEN StripAttrsFrom(s, HiddenAttrAt(s, i) + 1)
    ELSE <<s[i]>> \o StripAttrsFrom(s, i + 1)

stripHiddenAttributes(s) == StripAttrsFrom(s, 1)

\* The code point a word of decimal digits, or of hex digits, denotes; -1
\* for a character that is no such word.
DecimalValue(c) ==
    CASE c = "60" -> 60 [] c = "38" -> 38 [] c = "72" -> 72 [] c = "8" -> 8
      [] c = "8203" -> 8203
      [] OTHER -> -1

HexValue(c) ==
    CASE c = "3C" -> 60 [] c = "3c" -> 60 [] c = "26" -> 38 [] c = "8" -> 8
      [] c = "60" -> 96 [] c = "38" -> 56 [] c = "72" -> 114
      [] c = "200B" -> 8203 [] c = "8203" -> 33283
      [] OTHER -> -1

\* String.fromCharCode
CharOfCode(n) ==
    CASE n = 60 -> "<" [] n = 38 -> "&" [] n = 72 -> "H" [] n = 96 -> "BACKTICK"
      [] n = 56 -> "8" [] n = 114 -> "r" [] n = 8 -> "BS" [] n = 8203 -> "ZWSP"
      [] n = 33283 -> "CJK"

\* The code points the CharacterFilter deletes: zero-width space, joiner
\* and non-joiner, byte-order mark, soft hyphen, bidi overrides and isolates.
InvisibleCodes ==
    {8203, 8204, 8205, 65279, 173} \cup (8234..8238) \cup (8294..8297)

\* Variant: only the C0 controls count as non-printable.
IsC0Control(n) == n < 32 /\ n \notin {9, 10, 13}

\* A control or otherwise non-printable code point, \t \n \r apart.
IsNonPrintable(n) ==
    \/ n < 32 /\ n \notin {9, 10, 13}
    \/ n >= 127 /\ n <= 159
    \/ n \in InvisibleCodes

\* &#NNN; or &#xHHHH; starts at i: its length and its code point.
EntityAt(s, i) ==
    IF CharAt(s, i) = "&" /\ CharAt(s, i + 1) = "#"
    THEN IF DecimalValue(CharAt(s, i + 2)) >= 0 /\ CharAt(s, i + 3) = ";"
         THEN Some(<<4, DecimalValue(CharAt(s, i + 2))>>)
         ELSE IF /\ CharAt(s, i + 2) \in {"x", "X"}
                 /\ HexValue(CharAt(s, i + 3)) >= 0
                 /\ CharAt(s, i + 4) = ";"
         THEN Some(<<5, HexValue(CharAt(s, i + 3))>>)
         ELSE None
    ELSE None

\* EntityNormalizer: decoded, or deleted when the code point is not
\* printable.
RECURSIVE NormalizeFrom(_, _)
NormalizeFrom(s, i) ==
    IF i > Len(s) THEN <<>>
    ELSE IF EntityAt(s, i) # None
         THEN (IF IsNonPrintable(EntityAt(s, i)[1][2]) THEN <<>>
               ELSE <<CharOfCode(EntityAt(s, i)[1][2])>>)
                  \o NormalizeFrom(s, i + EntityAt(s, i)[1][1])
    ELSE <<s[i]>> \o NormalizeFrom(s, i + 1)

normalizeHtmlEntities(s) == NormalizeFrom(s, 1)

TokenPrefixes == {"ghp_", "gho_", "ghs_", "ghr_"}

FineGrainedPrefix == "github_pat_"

\* The fewest characters that make the suffix of a fine-grained token.
MinFineGrainedSuffix == 11

Marker == <<"[", "REDACTED_GITHUB_TOKEN", "]">>

\* A letter, a digit or an underscore (or a word of them).
IsWordChar(c) ==
    c \notin {"", SP, NL, DQ, SQ, COMMA, DASH, "<", ">", "!", "&", "#", ";",
              "[", "]", "(", ")", "=", "BACKTICK"} \cup InvisibleChars

\* The number of letters, digits and underscores a word stands for.
WordLen(c) ==
    CASE c = "T36" -> 36 [] c = "T82" -> 82 [] c = "REDACTED_GITHUB_TOKEN" -> 21
      [] c = FineGrainedPrefix -> 11 [] c = "short" -> 5
      [] c \in TokenPrefixes \cup {"text", "href", "8203", "200B"} -> 4
      [] c \in {"url", "img", "alt", "src", "CJK"} -> 3
      [] c \in {"60", "38", "72", "3C", "3c", "26"} -> 2
      [] OTHER -> 1

\* The index after the run of word characters from i.
RECURSIVE SkipWord(_, _)
SkipWord(s, i) ==
    IF i <= Len(s) /\ IsWordChar(s[i]) THEN SkipWord(s, i + 1) ELSE i

\* The number of characters of s[i..j].
RECURSIVE RunLen(_, _, _)
RunLen(s, i, j) == IF i > j THEN 0 ELSE WordLen(s[i]) + RunLen(s, i + 1, j)

\* Variant: no word boundary asked for after a classic token.
TokenEndNoBoundary(s, i) ==
    IF IsWordChar(CharAt(s, i - 1)) THEN 0
    ELSE IF CharAt(s, i) \in TokenPrefixes /\ CharAt(s, i + 1) = "T36" THEN i + 1
    ELSE IF /\ CharAt(s, i) = FineGrainedPrefix
            /\ RunLen(s, i + 1, SkipWord(s, i + 1) - 1) >= MinFineGrainedSuffix
         THEN SkipWord(s, i + 1) - 1
    ELSE 0

\* A complete token starts at i: the index of its last character, 0 when
\* there is none.  A classic token is a prefix and 36 alphanumerics, a
\* fine-grained one the prefix and a long enough run of word characters,
\* with no word character before or after.
TokenEnd(s, i) ==
    IF IsWordChar(CharAt(s, i - 1)) THEN 0
    ELSE IF /\ CharAt(s, i) \in TokenPrefixes
            /\ CharAt(s, i + 1) = "T36"
            /\ ~IsWordChar(CharAt(s, i + 2))
         THEN i + 1
    ELSE IF /\ CharAt(s, i) = FineGrainedPrefix
            /\ RunLen(s, i + 1, SkipWord(s, i + 1) - 1) >= MinFineGrainedSuffix
         THEN SkipWord(s, i + 1) - 1
    ELSE 0

TokenAt(s, i) == TokenEnd(s, i) # 0

\* TokenRedactor
RECURSIVE RedactFrom(_, _)
RedactFrom(s, i) ==
    IF i > Len(s) THEN <<>>
    ELSE IF TokenAt(s, i) THEN Marker \o RedactFrom(s, TokenEnd(s, i) + 1)
    ELSE <<s[i]>> \o RedactFrom(s, i + 1)

redactGitHubTokens(s) == RedactFrom(s, 1)

\* The composition, in the order of spec 4.1.
sanitizeContent(s) ==
    redactGitHubTokens(
      normalizeHtmlEntities(
        stripHiddenAttributes(
          stripMarkdownLinkTitles(
            stripMarkdownImageAltText(
              stripInvisibleCharacters(
                stripHtmlComments(s)))))))

\* ------------------------------------------------------- validatePluginName
\* In a plugin name every character is a single one: "p" and "q" are
\* letters, "1" is a digit.

Letters == {"p", "q", "e"}

Digits == {"1"}

\* [@a-zA-Z0-9_\-\/\.]
IsNameChar(c) == c \in Letters \cup Digits \cup {"@", "_", DASH, "/", "."}

MAX_PLUGIN_NAME_LENGTH == 512

\* String.prototype.normalize("NFC"): a letter and the combining mark after
\* it become the one composed character; the fullwidth dot has no canonical
\* equivalent and stays.
RECURSIVE NormalizeNFC(_)
NormalizeNFC(s) ==
    IF Len(s) = 0 THEN <<>>
    ELSE IF Len(s) >= 2 /\ s[1] = "e" /\ s[2] = "ACUTE"
         THEN <<"e-acute">> \o NormalizeNFC(SubSeq(s, 3, Len(s)))
    ELSE <<s[1]>> \o NormalizeNFC(Tail(s))

\* PLUGIN_NAME_REGEX.test(s)
MatchesPluginNameRegex(s) == Len(s) > 0 /\ \A i \in 1..Len(s) : IsNameChar(s[i])

\* One of the alternatives of PATH_TRAVERSAL_REGEX matches at i.
TraversalAt(s, i) ==
    \/ SubAt(s, i, <<".", ".", "/">>)
    \/ SubAt(s, i, <<"/", ".", ".">>)
    \/ SubAt(s, i, <<".", "/">>)
    \/ SubAt(s, i, <<"/", ".">>)
    \* (?:^|\/)\.\.$
    \/ i = 1 /\ s = <<".", ".">>
    \/ SubAt(s, i, <<"/", ".", ".">>) /\ i + 2 = Len(s)
    \* (?:^|\/)\.$
    \/ i = 1 /\ s = <<".">>
    \/ SubAt(s, i, <<"/", ".">>) /\ i + 1 = Len(s)
    \* \.\.(?![0-9])
    \/ SubAt(s, i, <<".", ".">>) /\ CharAt(s, i + 2) \notin Digits

\* PATH_TRAVERSAL_REGEX.test(s)
MatchesPathTraversalRegex(s) == \E i \in 1..Len(s) : TraversalAt(s, i)

\* What validatePluginName throws, "" when it returns.
validatePluginName(pluginName) ==
    LET normalized == NormalizeNFC(pluginName)
    IN  IF Len(normalized) > MAX_PLUGIN_NAME_LENGTH THEN "Plugin name too long"
        ELSE IF ~MatchesPluginNameRegex(normalized) THEN "Invalid plugin name format"
        ELSE IF MatchesPathTraversalRegex(normalized) THEN "Invalid plugin name format"
        ELSE ""

\* Variant: the entries are not checked.
parsePluginsUnchecked(plugins) ==
    IF plugins = None \/ Trim(plugins[1]) = <<>> THEN [names |-> <<>>, error |-> ""]
    ELSE [names |-> SelectSeq(SplitTrim(Trim(plugins[1])), LAMBDA p : Len(p) # 0),
          error |-> ""]

\* parsePlugins: the names, and what the first failing validatePluginName
\* threw ("" when none did).
parsePlugins(plugins) ==
    IF plugins = None \/ Trim(plugins[1]) = <<>> THEN [names |-> <<>>, error |-> ""]
    ELSE LET entries == SelectSeq(SplitTrim(Trim(plugins[1])), LAMBDA p : Len(p) # 0)
             failing == {i \in 1..Len(entries) : validatePluginName(entries[i]) # ""}
         IN  IF failing = {} THEN [names |-> entries, error |-> ""]
             ELSE [names |-> <<>>,
                   error |-> validatePluginName(
                       entries[CHOOSE i \in failing : \A j \in failing : i <= j])]

\* ------------------------------------------------------------ installPlugins

CLAUDE_CODE_MARKETPLACE_URL == "https://github.com/anthropics/claude-code.git"

\* The args of addMarketplace's and of installPlugin's command.
MarketplaceArgs ==
    << <<"plugin">>, <<"marketplace">>, <<"add">>, <<CLAUDE_CODE_MARKETPLACE_URL>> >>

\* Variant: the name left out.
InstallArgsNoName(pluginName) == << <<"plugin">>, <<"install">> >>

InstallArgs(pluginName) == << <<"plugin">>, <<"install">>, pluginName >>

\* spawn(claudeExecutable, args): the child, with no event emitted yet.
\* exit is the code of its close event, none for a signal.
Spawn(args) == [args |-> args, state |-> "running", exit |-> None, settled |-> FALSE]

\* Variant: every event of the child carries on with the caller.
IsPendingAlways(child) == TRUE

\* The promise of executeClaudeCommand is neither resolved nor rejected
\* yet: only then does resolve() or reject() settle it and wake the caller.
IsPending(child) == ~child.settled

\* What executeClaudeCommand rejects with.
CommandError(args, kind) == [args |-> args, kind |-> kind]

\* ------------------------------------------- validateEnvironmentVariables
\* process.env is a function from the names to values, none for a name
\* that is not set.

EnvFlags == {"CLAUDE_CODE_USE_BEDROCK", "CLAUDE_CODE_USE_VERTEX", "CLAUDE_CODE_USE_FOUNDRY"}

EnvCredentials ==
    {"ANTHROPIC_API_KEY", "CLAUDE_CODE_OAUTH_TOKEN", "AWS_REGION", "AWS_ACCESS_KEY_ID",
     "AWS_SECRET_ACCESS_KEY", "AWS_BEARER_TOKEN_BEDROCK", "ANTHROPIC_VERTEX_PROJECT_ID",
     "CLOUD_ML_REGION", "ANTHROPIC_FOUNDRY_RESOURCE", "ANTHROPIC_FOUNDRY_BASE_URL"}

EnvNames == EnvFlags \cup EnvCredentials

\* !value of a string or undefined
Falsy(v) == v = None \/ v = Some("")

MultipleProvidersError ==
    "Cannot use multiple providers simultaneously. Please set only one of: CLAUDE_CODE_USE_BEDROCK, CLAUDE_CODE_USE_VERTEX, or CLAUDE_CODE_USE_FOUNDRY."

\* Variant: the check of the revision without Foundry.
BothBedrockAndVertex(useBedrock, useVertex, useFoundry) == useBedrock /\ useVertex

\* [useBedrock, useVertex, useFoundry].filter(Boolean).length > 1
MultipleProviders(useBedrock, useVertex, useFoundry) ==
    Cardinality({p \in {"bedrock", "vertex", "foundry"} :
        \/ p = "bedrock" /\ useBedrock
        \/ p = "vertex" /\ useVertex
        \/ p = "foundry" /\ useFoundry}) > 1

DirectErrors(e) ==
    IF Falsy(e["ANTHROPIC_API_KEY"]) /\ Falsy(e["CLAUDE_CODE_OAUTH_TOKEN"])
    THEN <<"Either ANTHROPIC_API_KEY or CLAUDE_CODE_OAUTH_TOKEN is required when using direct Anthropic API.">>
    ELSE <<>>

BedrockRegionError == "AWS_REGION is required when using AWS Bedrock."

BedrockCredentialsError ==
    "Either AWS_BEARER_TOKEN_BEDROCK or both AWS_ACCESS_KEY_ID and AWS_SECRET_ACCESS_KEY are required when using AWS Bedrock."

\* Variant: the credentials looked at only when the region is there.
BedrockErrorsFirstOnly(e) ==
    IF Falsy(e["AWS_REGION"]) THEN <<BedrockRegionError>>
    ELSE IF /\ (Falsy(e["AWS_ACCESS_KEY_ID"]) \/ Falsy(e["AWS_SECRET_ACCESS_KEY"]))
            /\ Falsy(e["AWS_BEARER_TOKEN_BEDROCK"])
         THEN <<BedrockCredentialsError>>
    ELSE <<>>

BedrockErrors(e) ==
    LET hasAccessKeyCredentials ==
            ~Falsy(e["AWS_ACCESS_KEY_ID"]) /\ ~Falsy(e["AWS_SECRET_ACCESS_KEY"])
        hasBearerToken == ~Falsy(e["AWS_BEARER_TOKEN_BEDROCK"])
    IN  (IF Falsy(e["AWS_REGION"]) THEN <<BedrockRegionError>> ELSE <<>>)
        \o (IF ~hasAccessKeyCredentials /\ ~hasBearerToken
            THEN <<BedrockCredentialsError>> ELSE <<>>)

VertexErrors(e) ==
    (IF Falsy(e["ANTHROPIC_VERTEX_PROJECT_ID"])
     THEN <<"ANTHROPIC_VERTEX_PROJECT_ID is required when using Google Vertex AI.">>
     ELSE <<>>)
    \o (IF Falsy(e["CLOUD_ML_REGION"])
        THEN <<"CLOUD_ML_REGION is required when using Google Vertex AI.">>
        ELSE <<>>)

FoundryErrors(e) ==
    IF Falsy(e["ANTHROPIC_FOUNDRY_RESOURCE"]) /\ Falsy(e["ANTHROPIC_FOUNDRY_BASE_URL"])
    THEN <<"Either ANTHROPIC_FOUNDRY_RESOURCE or ANTHROPIC_FOUNDRY_BASE_URL is required when using Microsoft Foundry.">>
    ELSE <<>>

\* The errors validateEnvironmentVariables collects: it throws one Error
\* whose message lists them when there is any, and returns otherwise.
validateEnvironmentVariables(e) ==
    LET useBedrock == e["CLAUDE_CODE_USE_BEDROCK"] = Some("1")
        useVertex == e["CLAUDE_CODE_USE_VERTEX"] = Some("1")
        useFoundry == e["CLAUDE_CODE_USE_FOUNDRY"] = Some("1")
    IN  (IF MultipleProviders(useBedrock, useVertex, useFoundry)
         THEN <<MultipleProvidersError>> ELSE <<>>)
        \o (IF ~useBedrock /\ ~useVertex /\ ~useFoundry THEN DirectErrors(e)
            ELSE IF useBedrock THEN BedrockErrors(e)
            ELSE IF useVertex THEN VertexErrors(e)
            ELSE FoundryErrors(e))

\* ---------------------------------------------------------------- detectMode
\* A context is the event's name, the prompt input (none when the input is
\* not given) and what checkContainsTrigger returns for the event.

\* The events of an entity (an issue or a pull request).
EntityEvents ==
    {"issues", "issue_comment", "pull_request", "pull_request_review",
     "pull_request_review_comment"}

isEntityContext(context) == context.eventName \in EntityEvents

isIssueCommentEvent(context) == context.eventName = "issue_comment"

isPullRequestReviewCommentEvent(context) ==
    context.eventName = "pull_request_review_comment"

checkContainsTrigger(context) == context.containsTrigger

\* context.inputs?.prompt as a condition: a string that is not empty.
HasPrompt(context) == context.prompt # None /\ context.prompt # Some(<<>>)

\* Variant: the mention looked for before the prompt.
detectModeMentionFirst(context) ==
    IF /\ isEntityContext(context)
       /\ \/ isIssueCommentEvent(context)
          \/ isPullRequestReviewCommentEvent(context)
          \/ context.eventName = "issues"
       /\ checkContainsTrigger(context)
    THEN "tag"
    ELSE "agent"

detectMode(context) ==
    IF HasPrompt(context) THEN "agent"
    ELSE IF /\ isEntityContext(context)
            /\ isIssueCommentEvent(context) \/ isPullRequestReviewCommentEvent(context)
            /\ checkContainsTrigger(context)
         THEN "tag"
    ELSE IF /\ isEntityContext(context)
            /\ context.eventName = "issues"
            /\ checkContainsTrigger(context)
         THEN "tag"
    ELSE "agent"

\* agentMode.shouldTrigger: only an explicit prompt triggers agent mode.
\* Variant: agent mode triggering on the automation events, prompt or not.
shouldTriggerOnAutomationEvents(context) ==
    context.eventName \in {"workflow_dispatch", "schedule"}

shouldTrigger(context) == HasPrompt(context)

\* ------------------------------------------- parseAndSetStructuredOutputs
\* The execution file is missing, holds text that is not JSON, holds a JSON
\* value that is not an array, or holds an array of messages. A message has
\* a type and may have a structured_output, which is null or an object; an
\* object is the sequence of its fields, each a key and the JSON text of its
\* value.

MaxMessages == 3

JsonNull == [kind |-> "null", fields |-> <<>>]

JsonObject(fields) == [kind |-> "object", fields |-> fields]

Message(type, structured_output) ==
    [type |-> type, structured_output |-> structured_output]

RECURSIVE StringifyFields(_, _)
StringifyFields(fields, i) ==
    IF i > Len(fields) THEN <<>>
    ELSE (IF i > 1 THEN <<COMMA>> ELSE <<>>)
         \o <<DQ, fields[i][1], DQ, ":", fields[i][2]>>
         \o StringifyFields(fields, i + 1)

\* JSON.stringify of a structured_output.
JSONstringify(value) ==
    IF value.kind = "null" THEN <<"null">>
    ELSE <<"{">> \o StringifyFields(value.fields, 1) \o <<"}">>

\* m.structured_output as a condition: null and undefined are falsy, every
\* object is truthy.
HasStructuredOutput(m) ==
    m.structured_output # None /\ m.structured_output[1].kind = "object"

\* Variant: the last result message, with a structured_output or not.
IsResult(m) == m.type = "result"

IsResultWithOutput(m) == m.type = "result" /\ HasStructuredOutput(m)

RECURSIVE FindLastFrom(_, _)
FindLastFrom(messages, i) ==
    IF i = 0 THEN 0
    ELSE IF IsResultWithOutput(messages[i]) THEN i
    ELSE FindLastFrom(messages, i - 1)

\* messages.findLast(...): the index of the message found, 0 for undefined.
findLast(messages) == FindLastFrom(messages, Len(messages))

SetOutput(name, value) == [name |-> name, value |-> value]

\* What the call leaves: the setOutput calls made and the error it rejected
\* with ("" when it resolved).
parseAndSetStructuredOutputs(file) ==
    IF file.kind = "missing" THEN [outputs |-> <<>>, error |-> "ENOENT"]
    ELSE IF file.kind = "malformed" THEN [outputs |-> <<>>, error |-> "SyntaxError"]
    ELSE IF file.kind # "array" THEN [outputs |-> <<>>, error |-> "TypeError"]
    ELSE LET result == findLast(file.messages) IN
         IF result = 0 \/ ~HasStructuredOutput(file.messages[result])
         THEN [outputs |-> <<>>,
               error |-> "--json-schema was provided but Claude did not return structured_output."]
         ELSE [outputs |->
                  <<SetOutput("structured_output",
                       JSONstringify(file.messages[result].structured_output[1]))>>,
               error |-> ""]

\* ------------------------------------ sanitizeJsonOutput, sanitizeSdkOutput
\* A message is an object with the keys type, subtype, model, is_error,
\* num_turns and result, in this order. The value of a key is the JSON text
\* of the value, "undefined" for a key that holds undefined, or Absent for
\* a key the object does not have. is_error and num_turns stand for the
\* five keys a result summary copies (duration_ms, total_cost_usd and
\* permission_denials are copied the same way), result for every other key.

Absent == "absent"

Undefined == "undefined"

MessageKeys == <<"type", "subtype", "model", "is_error", "num_turns", "result">>

\* obj.key
Get(obj, key) == IF obj[key] = Absent THEN Undefined ELSE obj[key]

\* "key" in obj
In(key, obj) == obj[key] # Absent

\* A value as a condition.
IsFalsyJson(v) == v \in {Undefined, "null", "\"\"", "false", "0"}

RECURSIVE PrettyFields(_, _)
PrettyFields(fields, i) ==
    IF i > Len(fields) THEN <<>>
    ELSE (IF i > 1 THEN <<COMMA, NL>> ELSE <<>>)
         \o <<SP, SP, DQ, fields[i][1], DQ, ":", SP, fields[i][2]>>
         \o PrettyFields(fields, i + 1)

IsDefinedField(f) == f[2] # Undefined

\* JSON.stringify(object, null, 2): keys that hold undefined are left out.
JSONstringifyPretty(fields) ==
    LET defined == SelectSeq(fields, IsDefinedField) IN
    IF defined = <<>> THEN <<"{", "}">>
    ELSE <<"{", NL>> \o PrettyFields(defined, 1) \o <<NL, "}">>

\* The own keys of a message with their values, in order.
FieldsOf(obj) ==
    LET present(k) == obj[k] # Absent
        field(i) == <<MessageKeys[i], obj[MessageKeys[i]]>>
        all == [i \in 1..Len(MessageKeys) |-> field(i)]
        IsPresent(f) == f[2] # Absent
    IN  SelectSeq(all, IsPresent)

InitSummary(model) ==
    << <<"type", "\"system\"">>, <<"subtype", "\"init\"">>,
       <<"message", "\"Claude Code initialized\"">>, <<"model", model>> >>

ResultSummary(obj) ==
    << <<"type", "\"result\"">>, <<"subtype", Get(obj, "subtype")>>,
       <<"is_error", Get(obj, "is_error")>>, <<"num_turns", Get(obj, "num_turns")>> >>

\* Variant: the result text kept in the summary of a result message.
sanitizeJsonOutputWithResult(jsonObj, showFullOutput) ==
    IF showFullOutput THEN Some(JSONstringifyPretty(FieldsOf(jsonObj)))
    ELSE IF Get(jsonObj, "type") = "\"system\"" /\ Get(jsonObj, "subtype") = "\"init\""
         THEN Some(JSONstringifyPretty(InitSummary(
                  IF IsFalsyJson(Get(jsonObj, "model")) THEN "\"unknown\""
                  ELSE Get(jsonObj, "model"))))
    ELSE IF Get(jsonObj, "type") = "\"result\""
         THEN Some(JSONstringifyPretty(
                  ResultSummary(jsonObj) \o << <<"result", Get(jsonObj, "result")>> >>))
    ELSE None

\* The CLI sanitizer; None is null.
sanitizeJsonOutput(jsonObj, showFullOutput) ==
    IF showFullOutput THEN Some(JSONstringifyPretty(FieldsOf(jsonObj)))
    ELSE IF Get(jsonObj, "type") = "\"system\"" /\ Get(jsonObj, "subtype") = "\"init\""
         THEN Some(JSONstringifyPretty(InitSummary(
                  IF IsFalsyJson(Get(jsonObj, "model")) THEN "\"unknown\""
                  ELSE Get(jsonObj, "model"))))
    ELSE IF Get(jsonObj, "type") = "\"result\""
         THEN Some(JSONstringifyPretty(ResultSummary(jsonObj)))
    ELSE None

\* The SDK sanitizer.
sanitizeSdkOutput(message, showFullOutput) ==
    IF showFullOutput THEN Some(JSONstringifyPretty(FieldsOf(message)))
    ELSE IF Get(message, "type") = "\"system\"" /\ Get(message, "subtype") = "\"init\""
         THEN Some(JSONstringifyPretty(InitSummary(
                  IF In("model", message) THEN Get(message, "model")
                  ELSE "\"unknown\"")))
    ELSE IF Get(message, "type") = "\"result\""
         THEN Some(JSONstringifyPretty(ResultSummary(message)))
    ELSE None

\* ------------------------------------------ runClaude: the stdout handler
\* A chunk of stdout is the sequence of the lines text.split("\n") gives: a
\* chunk that ends with a newline has the empty line last. A line is empty,
\* text that is not JSON, or the JSON text of a message.

MaxChunkLines == 2

NoMessage ==
    [type |-> Absent, subtype |-> Absent, model |-> Absent,
     is_error |-> Absent, num_turns |-> Absent, result |-> Absent]

EmptyLine == [kind |-> "empty", text |-> "", obj |-> NoMessage]

TextLine(text) == [kind |-> "text", text |-> text, obj |-> NoMessage]

JsonLine(obj) == [kind |-> "json", text |-> "", obj |-> obj]

\* options.showFullOutput === "true" || isDebugMode, and the branch after it.
ShowFullOutput(showFullOutputInput, isDebugMode) ==
    showFullOutputInput = "true" \/ isDebugMode

\* text.endsWith("\n")
EndsWithNewline(lines) == lines[Len(lines)].kind = "empty"

\* The "\n" written after a line that was written.
LineEnd(lines, index) ==
    IF index < Len(lines) \/ EndsWithNewline(lines) THEN <<NL>> ELSE <<>>

\* What the forEach body writes to process.stdout for one line.
WriteLine(lines, index, full) ==
    LET line == lines[index] IN
    IF line.kind = "empty" THEN <<>>
    ELSE IF line.kind = "json"
         THEN LET sanitizedOutput == sanitizeJsonOutput(line.obj, full) IN
              IF sanitizedOutput # None
              THEN sanitizedOutput[1] \o LineEnd(lines, index)
              ELSE <<>>
    ELSE IF full THEN <<line.text>> \o LineEnd(lines, index)
    ELSE <<>>

RECURSIVE WriteLinesFrom(_, _, _)
WriteLinesFrom(lines, index, full) ==
    IF index > Len(lines) THEN <<>>
    ELSE WriteLine(lines, index, full) \o WriteLinesFrom(lines, index + 1, full)

\* The "data" handler of claudeProcess.stdout: what it writes for a chunk.
OnStdoutData(lines, full) == WriteLinesFrom(lines, 1, full)

\* --------------------------------------------------- runClaude: the exit

\* s.includes(p)
RECURSIVE IncludesFrom(_, _, _)
IncludesFrom(s, p, i) ==
    IF i + Len(p) - 1 > Len(s) THEN FALSE
    ELSE IF SubSeq(s, i, i + Len(p) - 1) = p THEN TRUE
    ELSE IncludesFrom(s, p, i + 1)

includes(s, p) == IncludesFrom(s, p, 1)

\* options.claudeArgs?.includes("--json-schema") ?? false
hasJsonSchema(claudeArgsOption) ==
    IF claudeArgsOption = None THEN FALSE
    ELSE includes(claudeArgsOption[1], <<DASH, DASH, "json-schema">>)

\* code || 0: the exit code the promise resolves with on "close"; the code
\* is None (null) when a signal ended the process.
CodeOrZero(code) == IF code = None \/ code = Some(0) THEN 0 ELSE code[1]

\* What runClaude does once the exit code is known: the execution file it
\* leaves, the outputs it sets, the error it fails with and the code it
\* exits the action with (None when it returns).
Conclude(exitCode, jsonSchema, output, file, jqSucceeds) ==
    LET written == IF jqSucceeds THEN [kind |-> "array", messages |-> output]
                   ELSE file
        executionFileOutput == SetOutput("execution_file", <<"claude-execution-output.json">>)
        conclusion(c) == SetOutput("conclusion", <<c>>)
    IN
    IF exitCode = 0
    THEN IF jsonSchema
         THEN LET r == parseAndSetStructuredOutputs(written) IN
              IF r.error # ""
              THEN [file |-> written, error |-> r.error, exit |-> Some(1),
                    outputs |-> <<executionFileOutput, conclusion("failure")>>]
              ELSE [file |-> written, error |-> "", exit |-> None,
                    outputs |-> <<executionFileOutput>> \o r.outputs
                                    \o <<conclusion("success")>>]
         ELSE [file |-> written, error |-> "", exit |-> None,
               outputs |-> <<executionFileOutput, conclusion("success")>>]
    ELSE IF output # <<>>
         THEN [file |-> written, error |-> "", exit |-> Some(exitCode),
               outputs |-> <<conclusion("failure")>>
                               \o (IF jqSucceeds THEN <<executionFileOutput>> ELSE <<>>)]
    ELSE [file |-> file, error |-> "", exit |-> Some(exitCode),
          outputs |-> <<conclusion("failure")>>]

\* ------------------------------------------------------------ the state
\* claudeArgs is the claude_args string as the workflow and the mode compose
\* it, one shell word after the other; options are the direct inputs handed
\* over with it; parsed is what parseSdkOptions returned and allowedTools
\* what agent mode's prepare got from parseAllowedTools; config is what
\* prepareRunConfig returned.  pc tells which of them has returned.

VARIABLES claudeArgs, nPieces, pc, options, parsed, allowedTools, config

\* content is a piece of untrusted text, one fragment after the other;
\* sanitized is what sanitizeContent returned for it and resanitized what it
\* returned for sanitized.  spc tells which of them has returned.

VARIABLES content, nFragments, spc, sanitized, resanitized

\* redacted is what redactGitHubTokens returned for content.

VARIABLES redacted

\* pluginsInput is the plugins input, a comma-separated list or undefined;
\* plugins is what parsePlugins returned for it and nextPlugin the position
\* of installPlugins' loop in it; children are the processes spawned so far,
\* in order, each with whether its promise is resolved or rejected already;
\* installError is what installPlugins rejected with.  ipc is where installPlugins is: not called yet, awaiting
\* a command, returned or rejected.

VARIABLES pluginsInput, nEntries, ipc, plugins, nextPlugin, children, installError

\* pluginName is a name handed to validatePluginName, vpc whether it was yet,
\* and nameError what it threw.

VARIABLES pluginName, vpc, nameError

\* env is process.env, epc whether validateEnvironmentVariables was called
\* yet and envErrors the errors it collected.

VARIABLES env, epc, envErrors

\* context is the context of the run, dpc whether there is one and whether
\* detectMode was called for it, mode what detectMode returned, and triggers
\* what the shouldTrigger of the selected mode returned for the context.

VARIABLES context, dpc, mode, triggers

argsVars == <<claudeArgs, nPieces, pc, options, parsed, allowedTools, config>>

sanVars == <<content, nFragments, spc, sanitized, resanitized, redacted>>

insVars ==
    <<pluginsInput, nEntries, ipc, plugins, nextPlugin, children, installError>>

nameVars == <<pluginName, vpc, nameError>>

plugVars == <<insVars, nameVars>>

envVars == <<env, epc, envErrors>>

modeVars == <<context, dpc, mode, triggers>>

\* executionFile is the execution file handed to parseAndSetStructuredOutputs,
\* xpc whether the call was made, outputs the action outputs set so far and
\* structuredError what the call rejected with.

VARIABLES executionFile, xpc, outputs, structuredError

structVars == <<executionFile, xpc, outputs, structuredError>>

\* message is a message handed to both sanitizers with showFullOutput, opc
\* whether they ran, cliOutput and sdkOutput what they returned.

VARIABLES message, showFullOutput, opc, cliOutput, sdkOutput

outVars == <<message, showFullOutput, opc, cliOutput, sdkOutput>>

\* Two runs of runClaude side by side, with the same inputs and a stream of
\* their own each: runShowFull is their showFullOutput, cpc whether they
\* started and whether the handler is called, chunkA and chunkB the chunk
\* it is called with in each, printedA and printedB what it wrote for it.

VARIABLES runShowFull, cpc, chunkA, chunkB, printedA, printedB

conVars == <<runShowFull, cpc, chunkA, chunkB, printedA, printedB>>

\* A run of runClaude: rpc is where it stands, runJsonSchema its
\* hasJsonSchema, runOutput the messages the Claude process wrote, endedBy
\* how the process ended ("exit", "signal", "spawn error"), closeCode the
\* code of its "close" event, exitCode what the promise resolved with and
\* processExit the code runClaude exited the action with. The run writes
\* executionFile and sets outputs and structuredError.

VARIABLES rpc, runJsonSchema, runOutput, endedBy, closeCode, exitCode, processExit

exitVars == <<rpc, runJsonSchema, runOutput, endedBy, closeCode, exitCode, processExit>>

structRest == <<outVars, conVars, exitVars>>

outRest == <<structVars, conVars, exitVars>>

conRest == <<structVars, outVars, exitVars>>

exitRest == <<outVars, conVars>>

runVars == <<structVars, outVars, conVars, exitVars>>

vars == <<argsVars, sanVars, plugVars, envVars, modeVars, runVars>>

\* The shell words a claude_args string is composed of.
Pieces ==
    { <<DASH, DASH, "allowedTools">>,
      <<DASH, DASH, "disallowedTools">>,
      <<DASH, DASH, "model">>,
      <<DASH, DASH, "max-turns">>,
      <<"Edit">>,
      <<DQ, "Edit", COMMA, "Read", DQ>>,
      <<SQ, "Read", COMMA, COMMA, SP, "Edit", SQ>>,
      <<DQ, DQ>>,
      <<DQ, "Edit">> }

\* The direct inputs of ClaudeOptions.
NoOptions ==
    [allowedTools |-> None, disallowedTools |-> None, model |-> None, maxTurns |-> None]

DirectOptions ==
    { NoOptions,
      [allowedTools |-> Some(<<"Edit", COMMA, SP, "Write">>), disallowedTools |-> None,
       model |-> Some(<<"claude">>), maxTurns |-> Some(<<"5">>)],
      [allowedTools |-> None, disallowedTools |-> Some(<<"Bash", COMMA, "Edit">>),
       model |-> None, maxTurns |-> None] }

WithArgs(opts, args) ==
    [claudeArgs |-> args, allowedTools |-> opts.allowedTools,
     disallowedTools |-> opts.disallowedTools, model |-> opts.model,
     maxTurns |-> opts.maxTurns]

ArgsInit ==
    /\ claudeArgs = <<>>
    /\ nPieces = 0
    /\ pc = "input"
    /\ options = WithArgs(NoOptions, <<>>)
    /\ parsed = None
    /\ allowedTools = None
    /\ config = None

SanInit ==
    /\ content = <<>>
    /\ nFragments = 0
    /\ spc = "raw"
    /\ sanitized = None
    /\ resanitized = None
    /\ redacted = None

InsInit ==
    /\ pluginsInput = None
    /\ nEntries = 0
    /\ ipc = "input"
    /\ plugins = <<>>
    /\ nextPlugin = 1
    /\ children = <<>>
    /\ installError = None

NameInit ==
    /\ pluginName = <<>>
    /\ vpc = "input"
    /\ nameError = ""

EnvInit ==
    /\ env = [name \in EnvNames |-> None]
    /\ epc = "input"
    /\ envErrors = <<>>

ModeInit ==
    /\ context = [eventName |-> "", prompt |-> None, containsTrigger |-> FALSE]
    /\ dpc = "input"
    /\ mode = ""
    /\ triggers = FALSE

StructInit ==
    /\ executionFile = [kind |-> "missing", messages |-> <<>>]
    /\ xpc = "file"
    /\ outputs = <<>>
    /\ structuredError = ""

OutInit ==
    /\ message = [type |-> Absent, subtype |-> Absent, model |-> Absent,
                  is_error |-> Absent, num_turns |-> Absent, result |-> Absent]
    /\ showFullOutput = FALSE
    /\ opc = "input"
    /\ cliOutput = None
    /\ sdkOutput = None

ConInit ==
    /\ runShowFull = FALSE
    /\ cpc = "start"
    /\ chunkA = <<>>
    /\ chunkB = <<>>
    /\ printedA = <<>>
    /\ printedB = <<>>

ExitInit ==
    /\ rpc = "start"
    /\ runJsonSchema = FALSE
    /\ runOutput = <<>>
    /\ endedBy = ""
    /\ closeCode = None
    /\ exitCode = 0
    /\ processExit = None

RunInit == StructInit /\ OutInit /\ ConInit /\ ExitInit

Init == ArgsInit /\ SanInit /\ InsInit /\ NameInit /\ EnvInit /\ ModeInit /\ RunInit

\* `${claudeArgs} ${piece}`.trim()
AddArg(piece) ==
    /\ pc = "input"
    /\ nPieces < MaxPieces
    /\ claudeArgs' = Trim(claudeArgs \o <<SP>> \o piece)
    /\ nPieces' = nPieces + 1
    /\ UNCHANGED <<pc, options, parsed, allowedTools, config, sanVars, plugVars, envVars, modeVars, runVars>>

RunParseSdkOptions(opts) ==
    /\ pc = "input"
    /\ options' = WithArgs(opts, claudeArgs)
    /\ parsed' = Some(parseSdkOptions(WithArgs(opts, claudeArgs)))
    /\ pc' = "sdk"
    /\ UNCHANGED <<claudeArgs, nPieces, allowedTools, config, sanVars, plugVars, envVars, modeVars, runVars>>

RunParseAllowedTools ==
    /\ pc = "input"
    /\ allowedTools' = Some(parseAllowedTools(claudeArgs))
    /\ pc' = "tools"
    /\ UNCHANGED <<claudeArgs, nPieces, options, parsed, config, sanVars, plugVars, envVars, modeVars, runVars>>

RunPrepareRunConfig ==
    /\ pc = "input"
    /\ options' = WithArgs(NoOptions, claudeArgs)
    /\ config' = Some(prepareRunConfig(WithArgs(NoOptions, claudeArgs)))
    /\ pc' = "config"
    /\ UNCHANGED <<claudeArgs, nPieces, parsed, allowedTools, sanVars, plugVars, envVars, modeVars, runVars>>

Next ==
    \/ \E piece \in Pieces : AddArg(piece)
    \/ \E opts \in DirectOptions : RunParseSdkOptions(opts)
    \/ RunParseAllowedTools
    \/ RunPrepareRunConfig

Spec == Init /\ [][Next]_vars

\* The fragments a piece of untrusted text is composed of.
Fragments ==
    { <<"text">>,
      <<SP>>,
      CommentOpen,
      CommentClose,
      <<"!", "-", "-">>,
      <<"&", "#", "60", ";">>,
      <<"&", "#", "38", ";">>,
      <<"#", "60", ";">>,
      <<"&", "#", "x", "3C", ";">>,
      <<"&", "#", "8", ";">>,
      <<"&", "#", "8203", ";">>,
      <<"ZWSP">>,
      <<"!", "[", "text", "]", "(", "url", ")">>,
      <<"!", "[", "]", "(", "url", ")">>,
      <<"[", "text", "]", "(", "url", SP, DQ, "text", DQ, ")">>,
      <<"[", "text", "]", "(", "url", ")">>,
      <<"<", "img", SP, "alt", "=", DQ, "text", DQ, SP, "src", "=", DQ, "url", DQ, ">">>,
      <<"<", "a", SP, "href", "=", DQ, "url", DQ, ">">>,
      <<"ghp_", "T36">>,
      <<"ghp_", "short">> }

AddFragment(f) ==
    /\ spc = "raw"
    /\ nFragments < MaxFragments
    /\ content' = content \o f
    /\ nFragments' = nFragments + 1
    /\ UNCHANGED <<spc, sanitized, resanitized, redacted, argsVars, plugVars, envVars, modeVars, runVars>>

RunSanitizeContent ==
    /\ spc = "raw"
    /\ sanitized' = Some(sanitizeContent(content))
    /\ spc' = "once"
    /\ UNCHANGED <<content, nFragments, resanitized, redacted, argsVars, plugVars, envVars, modeVars, runVars>>

RunSanitizeContentAgain ==
    /\ spc = "once"
    /\ resanitized' = Some(sanitizeContent(sanitized[1]))
    /\ spc' = "twice"
    /\ UNCHANGED <<content, nFragments, sanitized, redacted, argsVars, plugVars, envVars, modeVars, runVars>>

SanNext ==
    \/ \E f \in Fragments : AddFragment(f)
    \/ RunSanitizeContent
    \/ RunSanitizeContentAgain

SpecSanitize == Init /\ [][SanNext]_vars

\* The fragments of a text with tokens and their look-alikes: in plain
\* text, after the = of a URL query string or of a shell assignment in a
\* fenced code block, one after the other.
TokenFragments ==
    { <<"text">>,
      <<SP>>,
      <<NL>>,
      <<"=">>,
      <<"BACKTICK", "BACKTICK", "BACKTICK">>,
      <<"ghp_", "T36">>,
      <<"gho_", "T36">>,
      <<"ghs_", "T36">>,
      <<"ghr_", "T36">>,
      <<"ghp_">>,
      <<"ghp_", "short">>,
      <<"T36">>,
      <<FineGrainedPrefix, "T82">>,
      <<FineGrainedPrefix, "short">>,
      <<FineGrainedPrefix>> }

RunRedactGitHubTokens ==
    /\ spc = "raw"
    /\ redacted' = Some(redactGitHubTokens(content))
    /\ spc' = "redacted"
    /\ UNCHANGED <<content, nFragments, sanitized, resanitized, argsVars, plugVars, envVars, modeVars, runVars>>

RedactNext ==
    \/ \E f \in TokenFragments : AddFragment(f)
    \/ RunRedactGitHubTokens

SpecRedact == Init /\ [][RedactNext]_vars

\* The entries a plugins input is composed of, commas between them.
Entries ==
    { <<"p">>,
      <<"q">>,
      <<SP, "p", SP>>,
      <<>>,
      <<SP>>,
      <<"@", "p", "/", "q", DASH, "1", ".", "1">>,
      <<"p", ".", ".", "/">>,
      <<"p", ";", SP, "q">> }

AddEntry(entry) ==
    /\ ipc = "input"
    /\ nEntries < MaxEntries
    /\ pluginsInput' = IF pluginsInput = None THEN Some(entry)
                       ELSE Some(pluginsInput[1] \o <<COMMA>> \o entry)
    /\ nEntries' = nEntries + 1
    /\ UNCHANGED <<ipc, plugins, nextPlugin, children, installError>>
    /\ UNCHANGED <<nameVars, argsVars, sanVars, envVars, modeVars, runVars>>

\* installPlugins, up to its first await or its return.
CallInstallPlugins ==
    /\ ipc = "input"
    /\ LET parsedPlugins == parsePlugins(pluginsInput)
       IN  IF parsedPlugins.error # ""
           THEN /\ ipc' = "rejected"
                /\ installError' = Some(CommandError(<<>>, parsedPlugins.error))
                /\ UNCHANGED <<plugins, children>>
           ELSE IF Len(parsedPlugins.names) = 0
           THEN /\ ipc' = "returned"
                /\ UNCHANGED <<plugins, children, installError>>
           ELSE /\ plugins' = parsedPlugins.names
                /\ children' = <<Spawn(MarketplaceArgs)>>
                /\ ipc' = "awaiting"
                /\ UNCHANGED installError
    /\ UNCHANGED <<pluginsInput, nEntries, nextPlugin>>
    /\ UNCHANGED <<nameVars, argsVars, sanVars, envVars, modeVars, runVars>>

\* process.on("close") of the k-th child, and installPlugins from the await
\* of its promise to the next await, the return or the throw.
ChildClose(k, code) ==
    /\ k \in 1..Len(children)
    /\ children[k].state # "closed"
    /\ LET closed == [children EXCEPT ![k].state = "closed", ![k].exit = code,
                                      ![k].settled = TRUE]
       IN  IF ~IsPending(children[k])
           THEN /\ children' = closed
                /\ UNCHANGED <<ipc, nextPlugin, installError>>
           ELSE IF code = Some(0)
           THEN IF nextPlugin <= Len(plugins)
                THEN /\ children' = Append(closed, Spawn(InstallArgs(plugins[nextPlugin])))
                     /\ nextPlugin' = nextPlugin + 1
                     /\ UNCHANGED <<ipc, installError>>
                ELSE /\ children' = closed
                     /\ ipc' = "returned"
                     /\ UNCHANGED <<nextPlugin, installError>>
           ELSE /\ children' = closed
                /\ ipc' = "rejected"
                /\ installError' = Some(CommandError(children[k].args,
                                        IF code = None THEN "process terminated by signal"
                                        ELSE "exit code"))
                /\ UNCHANGED nextPlugin
    /\ UNCHANGED <<pluginsInput, nEntries, plugins>>
    /\ UNCHANGED <<nameVars, argsVars, sanVars, envVars, modeVars, runVars>>

\* process.on("error") of the k-th child, and the throw of installPlugins.
ChildError(k) ==
    /\ k \in 1..Len(children)
    /\ children[k].state = "running"
    /\ children' = [children EXCEPT ![k].state = "errored", ![k].settled = TRUE]
    /\ IF ~IsPending(children[k])
       THEN UNCHANGED <<ipc, installError>>
       ELSE /\ ipc' = "rejected"
            /\ installError' = Some(CommandError(children[k].args, "error"))
    /\ UNCHANGED <<pluginsInput, nEntries, plugins, nextPlugin>>
    /\ UNCHANGED <<nameVars, argsVars, sanVars, envVars, modeVars, runVars>>

\* The codes of a close event: 0, another code, none after a signal.
ExitCodes == {Some(0), Some(1), None}

InstallNext ==
    \/ \E entry \in Entries : AddEntry(entry)
    \/ CallInstallPlugins
    \/ \E k \in 1..MaxEntries + 1, code \in ExitCodes : ChildClose(k, code)
    \/ \E k \in 1..MaxEntries + 1 : ChildError(k)

SpecInstall == Init /\ [][InstallNext]_vars

\* The characters a plugin name is composed of.
NameAlphabet == {"p", "e", "1", ".", "/", ";", "ACUTE", "FWDOT"}

AddNameChar(c) ==
    /\ vpc = "input"
    /\ Len(pluginName) < MaxNameLen
    /\ pluginName' = Append(pluginName, c)
    /\ UNCHANGED <<vpc, nameError, insVars, argsVars, sanVars, envVars, modeVars, runVars>>

RunValidatePluginName ==
    /\ vpc = "input"
    /\ nameError' = validatePluginName(pluginName)
    /\ vpc' = "validated"
    /\ UNCHANGED <<pluginName, insVars, argsVars, sanVars, envVars, modeVars, runVars>>

ValidateNext ==
    \/ \E c \in NameAlphabet : AddNameChar(c)
    \/ RunValidatePluginName

SpecValidate == Init /\ [][ValidateNext]_vars

\* The values an environment variable is set to: a flag to "1" or to
\* something else, a credential to a value or to the empty string.
EnvValues(name) ==
    IF name \in EnvFlags THEN {"1", "true"}
    ELSE IF name \in {"ANTHROPIC_API_KEY", "AWS_REGION"} THEN {"x", ""}
    ELSE {"x"}

SetEnv(name, value) ==
    /\ epc = "input"
    /\ env[name] = None
    /\ env' = [env EXCEPT ![name] = Some(value)]
    /\ UNCHANGED <<epc, envErrors, argsVars, sanVars, plugVars, modeVars, runVars>>

RunValidateEnvironmentVariables ==
    /\ epc = "input"
    /\ envErrors' = validateEnvironmentVariables(env)
    /\ epc' = "validated"
    /\ UNCHANGED <<env, argsVars, sanVars, plugVars, modeVars, runVars>>

EnvNext ==
    \/ \E name \in EnvNames : \E value \in EnvValues(name) : SetEnv(name, value)
    \/ RunValidateEnvironmentVariables

SpecEnv == Init /\ [][EnvNext]_vars

\* The events a workflow runs on.
EventNames ==
    EntityEvents \cup {"workflow_dispatch", "schedule", "push"}

\* The prompt input: not given, empty, blank, a task, a task that mentions
\* @claude.
Prompts == {None, Some(<<>>), Some(<<SP>>), Some(<<"text">>), Some(<<"@claude", SP, "text">>)}

ReceiveEvent(eventName, prompt, containsTrigger) ==
    /\ dpc = "input"
    /\ context' = [eventName |-> eventName, prompt |-> prompt,
                   containsTrigger |-> containsTrigger]
    /\ dpc' = "context"
    /\ UNCHANGED <<mode, triggers, argsVars, sanVars, plugVars, envVars, runVars>>

RunDetectMode ==
    /\ dpc = "context"
    /\ mode' = detectMode(context)
    /\ dpc' = "detected"
    /\ UNCHANGED <<context, triggers, argsVars, sanVars, plugVars, envVars, runVars>>

\* Agent mode, once selected, is asked whether it triggers for the context.
RunShouldTrigger ==
    /\ dpc = "detected"
    /\ mode = "agent"
    /\ triggers' = shouldTrigger(context)
    /\ dpc' = "triggered"
    /\ UNCHANGED <<context, mode, argsVars, sanVars, plugVars, envVars, runVars>>

ModeNext ==
    \/ \E eventName \in EventNames, prompt \in Prompts, containsTrigger \in BOOLEAN :
          ReceiveEvent(eventName, prompt, containsTrigger)
    \/ RunDetectMode
    \/ RunShouldTrigger

SpecMode == Init /\ [][ModeNext]_vars


\* ---------------------------------- actions: parseAndSetStructuredOutputs

FileKinds == {"missing", "malformed", "object", "array"}

StructuredOutputs ==
    {None, Some(JsonNull), Some(JsonObject(<<>>)),
     Some(JsonObject(<< <<"is_flaky", "true">> >>)),
     Some(JsonObject(<< <<"summary", "1">>, <<"is_flaky", "false">> >>))}

Messages ==
    {Message("system", None), Message("turn", None)}
        \cup {Message("result", so) : so \in StructuredOutputs}

WriteExecutionFile(kind) ==
    /\ xpc = "file"
    /\ executionFile.messages = <<>>
    /\ kind # executionFile.kind
    /\ executionFile' = [kind |-> kind, messages |-> <<>>]
    /\ UNCHANGED <<xpc, outputs, structuredError, structRest,
                   argsVars, sanVars, plugVars, envVars, modeVars>>

AppendMessage(m) ==
    /\ xpc = "file"
    /\ executionFile.kind = "array"
    /\ Len(executionFile.messages) < MaxMessages
    /\ executionFile' = [executionFile EXCEPT !.messages = Append(@, m)]
    /\ UNCHANGED <<xpc, outputs, structuredError, structRest,
                   argsVars, sanVars, plugVars, envVars, modeVars>>

RunParseAndSetStructuredOutputs ==
    /\ xpc = "file"
    /\ LET r == parseAndSetStructuredOutputs(executionFile) IN
         /\ outputs' = outputs \o r.outputs
         /\ structuredError' = r.error
    /\ xpc' = "done"
    /\ UNCHANGED <<executionFile, structRest, argsVars, sanVars, plugVars, envVars, modeVars>>

StructNext ==
    \/ \E kind \in FileKinds : WriteExecutionFile(kind)
    \/ \E m \in Messages : AppendMessage(m)
    \/ RunParseAndSetStructuredOutputs

SpecStructured == Init /\ [][StructNext]_vars


\* ------------------------------------------ actions: the output sanitizers

MessageTypes == {"\"system\"", "\"result\"", "\"assistant\""}

Subtypes == {Absent, "\"init\"", "\"success\""}

ModelValues == {Absent, Undefined, "null", "\"\"", "\"claude\""}

SdkMessages ==
    [type : MessageTypes, subtype : Subtypes, model : ModelValues,
     is_error : {Absent, "false"}, num_turns : {Absent, "3"},
     result : {Absent, "\"secret\""}]

ReceiveMessage(m, full) ==
    /\ opc = "input"
    /\ message' = m
    /\ showFullOutput' = full
    /\ opc' = "message"
    /\ UNCHANGED <<cliOutput, sdkOutput, outRest,
                   argsVars, sanVars, plugVars, envVars, modeVars>>

RunSanitizeOutput ==
    /\ opc = "message"
    /\ cliOutput' = sanitizeJsonOutput(message, showFullOutput)
    /\ sdkOutput' = sanitizeSdkOutput(message, showFullOutput)
    /\ opc' = "sanitized"
    /\ UNCHANGED <<message, showFullOutput, outRest,
                   argsVars, sanVars, plugVars, envVars, modeVars>>

OutNext ==
    \/ \E m \in SdkMessages, full \in BOOLEAN : ReceiveMessage(m, full)
    \/ RunSanitizeOutput

SpecOutput == Init /\ [][OutNext]_vars


\* --------------------------------------------- actions: the stdout handler

InitMessage(model) ==
    [type |-> "\"system\"", subtype |-> "\"init\"", model |-> model,
     is_error |-> Absent, num_turns |-> Absent, result |-> Absent]

ResultMessage(num_turns, result) ==
    [type |-> "\"result\"", subtype |-> "\"success\"", model |-> Absent,
     is_error |-> "false", num_turns |-> num_turns, result |-> result]

AssistantMessage(result) ==
    [type |-> "\"assistant\"", subtype |-> Absent, model |-> "\"claude\"",
     is_error |-> Absent, num_turns |-> Absent, result |-> result]

Lines ==
    {EmptyLine, TextLine("secret text"),
     JsonLine(InitMessage("\"claude\"")), JsonLine(InitMessage(Absent)),
     JsonLine(ResultMessage("3", "\"secret\"")), JsonLine(ResultMessage("3", Absent)),
     JsonLine(ResultMessage("4", Absent)),
     JsonLine(AssistantMessage("\"secret\""))}

\* The chunks a "data" event can carry: never the empty text.
Chunks ==
    {c \in UNION {[1..n -> Lines] : n \in 1..MaxChunkLines} : c # <<EmptyLine>>}

StartRun(showFullOutputInput, isDebugMode) ==
    /\ cpc = "start"
    /\ runShowFull' = ShowFullOutput(showFullOutputInput, isDebugMode)
    /\ cpc' = "running"
    /\ UNCHANGED <<chunkA, chunkB, printedA, printedB, conRest,
                   argsVars, sanVars, plugVars, envVars, modeVars>>

StdoutData ==
    /\ cpc = "running"
    /\ \E a \in Chunks, b \in Chunks :
          /\ chunkA' = a
          /\ chunkB' = b
          /\ printedA' = OnStdoutData(a, runShowFull)
          /\ printedB' = OnStdoutData(b, runShowFull)
    /\ cpc' = "written"
    /\ UNCHANGED <<runShowFull, conRest,
                   argsVars, sanVars, plugVars, envVars, modeVars>>

\* The handler returned: the runs wait for the next chunk.
AwaitData ==
    /\ cpc = "written"
    /\ chunkA' = <<>>
    /\ chunkB' = <<>>
    /\ printedA' = <<>>
    /\ printedB' = <<>>
    /\ cpc' = "running"
    /\ UNCHANGED <<runShowFull, conRest,
                   argsVars, sanVars, plugVars, envVars, modeVars>>

ConNext ==
    \/ \E showFullOutputInput \in {"true", "false", Undefined}, isDebugMode \in BOOLEAN :
          StartRun(showFullOutputInput, isDebugMode)
    \/ StdoutData
    \/ AwaitData

SpecConsole == Init /\ [][ConNext]_vars


\* ------------------------------------------------ actions: runClaude exit

\* The claudeArgs option of a run.
RunArgs ==
    {None, Some(<<>>),
     Some(<<DASH, DASH, "model", SP, "claude">>),
     Some(<<DASH, DASH, "json-schema", SP, SQ, "{", "}", SQ>>)}

SpawnClaude(claudeArgsOption) ==
    /\ rpc = "start"
    /\ runJsonSchema' = hasJsonSchema(claudeArgsOption)
    /\ rpc' = "running"
    /\ UNCHANGED <<runOutput, endedBy, closeCode, exitCode, processExit, structVars,
                   exitRest, argsVars, sanVars, plugVars, envVars, modeVars>>

\* stdout data: output += text.
ClaudeWrites(m) ==
    /\ rpc = "running"
    /\ Len(runOutput) < MaxMessages
    /\ runOutput' = Append(runOutput, m)
    /\ UNCHANGED <<rpc, runJsonSchema, endedBy, closeCode, exitCode, processExit,
                   structVars, exitRest, argsVars, sanVars, plugVars, envVars, modeVars>>

\* "close": code is None when a signal ended the process.
ProcessClose(code) ==
    /\ rpc = "running"
    /\ closeCode' = code
    /\ endedBy' = IF code = None THEN "signal" ELSE "exit"
    /\ exitCode' = CodeOrZero(code)
    /\ rpc' = "exited"
    /\ UNCHANGED <<runJsonSchema, runOutput, processExit, structVars,
                   exitRest, argsVars, sanVars, plugVars, envVars, modeVars>>

\* "error": the process could not be spawned.
ProcessError ==
    /\ rpc = "running"
    /\ runOutput = <<>>
    /\ endedBy' = "spawn error"
    /\ exitCode' = 1
    /\ rpc' = "exited"
    /\ UNCHANGED <<runJsonSchema, runOutput, closeCode, processExit, structVars,
                   exitRest, argsVars, sanVars, plugVars, envVars, modeVars>>

SetConclusion(jqSucceeds) ==
    /\ rpc = "exited"
    /\ LET r == Conclude(exitCode, runJsonSchema, runOutput, executionFile, jqSucceeds) IN
         /\ executionFile' = r.file
         /\ outputs' = outputs \o r.outputs
         /\ structuredError' = r.error
         /\ processExit' = r.exit
    /\ rpc' = "done"
    /\ UNCHANGED <<xpc, runJsonSchema, runOutput, endedBy, closeCode, exitCode,
                   exitRest, argsVars, sanVars, plugVars, envVars, modeVars>>

RunNext ==
    \/ \E claudeArgsOption \in RunArgs : SpawnClaude(claudeArgsOption)
    \/ \E m \in Messages : ClaudeWrites(m)
    \/ \E code \in {Some(0), Some(1), Some(2), None} : ProcessClose(code)
    \/ ProcessError
    \/ \E jqSucceeds \in BOOLEAN : SetConclusion(jqSucceeds)

SpecRun == Init /\ [][RunNext]_vars


\* The shell words of a claude_args string that repeats flags and names
\* --json-schema inside a value.
FlagPieces ==
    { <<DASH, DASH, "json-schema">>,
      <<DASH, DASH, "mcp-config">>,
      <<"a.json">>,
      <<"b.json">>,
      <<DQ, "use", SP, DASH, DASH, "json-schema", DQ>>,
      <<DQ, DQ>> }

FlagsNext ==
    \/ \E piece \in FlagPieces : AddArg(piece)
    \/ \E opts \in DirectOptions : RunParseSdkOptions(opts)
    \/ RunParseAllowedTools
    \/ RunPrepareRunConfig

SpecFlags == Init /\ [][FlagsNext]_vars

\* --------------------------------------------- claims: argument handling

\* What the runs returned.
SdkOptions == parsed[1].sdkOptions
ExtraArgs == parsed[1].sdkOptions.extraArgs

\* The flag table of the claudeArgs string of this run.
FlagTable == parseClaudeArgsToExtraArgs(claudeArgs)

\* The tokens of the claudeArgs string of this run.
ArgTokens ==
    IF Trim(claudeArgs) = <<>> THEN <<>> ELSE parseShellArgs(claudeArgs)

\* A token that gives a flag a value: not empty, not another flag.
IsValueToken(tok) == tok # <<>> /\ ~StartsWith(tok, DashDash)

\* The values given to --<flag>, one per occurrence that has one, in order.
RECURSIVE ValuesGiven(_, _, _)
ValuesGiven(toks, flag, i) ==
    IF i > Len(toks) THEN <<>>
    ELSE IF /\ toks[i] = DashDash \o flag
            /\ i + 1 <= Len(toks)
            /\ IsValueToken(toks[i + 1])
         THEN <<toks[i + 1]>> \o ValuesGiven(toks, flag, i + 2)
    ELSE ValuesGiven(toks, flag, i + 1)

RECURSIVE JoinComma(_)
JoinComma(vals) ==
    IF Len(vals) = 1 THEN vals[1]
    ELSE vals[1] \o <<COMMA>> \o JoinComma(Tail(vals))

RECURSIVE NamesOf(_)
NamesOf(vals) ==
    IF vals = <<>> THEN <<>> ELSE SplitTrim(Head(vals)) \o NamesOf(Tail(vals))

\* The names of every occurrence of the flag, then those of the direct
\* option, each at its earliest position.
ExpectedTools(flag, opt) ==
    Dedup(NamesOf(ValuesGiven(ArgTokens, flag, 1))
            \o (IF opt # None /\ opt[1] # <<>> THEN SplitTrim(opt[1]) ELSE <<>>))

ExpectedOrUndefined(names) == IF names = <<>> THEN None ELSE Some(names)

\* C1: after parseSdkOptions, sdkOptions.allowedTools is the names of every
\* --allowedTools occurrence of claudeArgs, in order, followed by those of
\* options.allowedTools, without duplicates, and undefined when there is no
\* name; likewise for disallowedTools.
C1_MergedToolsOfEveryOccurrence ==
    pc = "sdk" =>
        /\ SdkOptions.allowedTools =
              ExpectedOrUndefined(ExpectedTools(AllowedKey, options.allowedTools))
        /\ SdkOptions.disallowedTools =
              ExpectedOrUndefined(ExpectedTools(DisallowedKey, options.disallowedTools))

\* C2: the extraArgs table parseSdkOptions returns has no allowedTools key
\* and no disallowedTools key.
C2_NoAccumulatingKeyInExtraArgs ==
    pc = "sdk" =>
        /\ AllowedKey \notin DOMAIN ExtraArgs
        /\ DisallowedKey \notin DOMAIN ExtraArgs

\* Both flags were in claudeArgs with values, and were merged.
C2_Witness ==
    /\ pc = "sdk"
    /\ Truthy(FlagTable, AllowedKey)
    /\ Truthy(FlagTable, DisallowedKey)
    /\ SdkOptions.allowedTools # None
    /\ SdkOptions.disallowedTools # None

\* C3: the table's value for an accumulating flag is the comma-join of
\* every value given to that flag, in order of occurrence.
C3_AccumulatedValueOfEveryOccurrence ==
    pc = "sdk" =>
        \A flag \in ACCUMULATING_FLAGS :
            ValuesGiven(ArgTokens, flag, 1) # <<>> =>
                /\ flag \in DOMAIN FlagTable
                /\ FlagTable[flag] = Some(JoinComma(ValuesGiven(ArgTokens, flag, 1)))

\* C4 as stated: a scalar flag present in both sources is carried by the
\* output with the structured value and not with the free-form one.
C4_StructuredValueOnly ==
    (pc = "sdk" /\ options.model # None /\ Truthy(FlagTable, ModelKey)) =>
        /\ SdkOptions.model = options.model
        /\ ModelKey \in DOMAIN ExtraArgs => ExtraArgs[ModelKey] = options.model

\* C4, amended: a scalar flag present in both sources is carried twice:
\* the typed field of sdkOptions has the structured value, and extraArgs
\* still has the flag with its free-form value.
C4_StructuredFieldAndFreeFormExtraArg ==
    (pc = "sdk" /\ options.model # None /\ Truthy(FlagTable, ModelKey)) =>
        /\ SdkOptions.model = options.model
        /\ ModelKey \in DOMAIN ExtraArgs
        /\ ExtraArgs[ModelKey] = FlagTable[ModelKey]

\* --model has a free-form value that differs from the structured one.
C4_Witness ==
    /\ pc = "sdk"
    /\ options.model = Some(<<"claude">>)
    /\ ModelKey \in DOMAIN FlagTable
    /\ FlagTable[ModelKey] = Some(<<"Edit">>)

\* C5: extraArgs is the flag table of claudeArgs without the allowedTools
\* and disallowedTools keys: every other flag is there with the value, or
\* null, that was parsed for it.
C5_PassThroughFrame ==
    pc = "sdk" =>
        /\ DOMAIN ExtraArgs = DOMAIN FlagTable \ {AllowedKey, DisallowedKey}
        /\ \A flag \in DOMAIN ExtraArgs : ExtraArgs[flag] = FlagTable[flag]

\* A flag with a value and a boolean flag pass through beside a removed
\* accumulating flag and a structured model option.
C5_Witness ==
    /\ pc = "sdk"
    /\ AllowedKey \in DOMAIN FlagTable
    /\ options.model # None
    /\ \E f, g \in DOMAIN ExtraArgs : ExtraArgs[f] = None /\ ExtraArgs[g] # None

\* The quote that is open at the end of s, None when every quote is closed.
RECURSIVE OpenQuote(_, _)
OpenQuote(s, quote) ==
    IF s = <<>> THEN quote
    ELSE IF quote # None
         THEN OpenQuote(Tail(s), IF Head(s) = quote[1] THEN None ELSE quote)
    ELSE OpenQuote(Tail(s), IF Head(s) \in {DQ, SQ} THEN Some(Head(s)) ELSE None)

HasUnterminatedQuote(s) == OpenQuote(s, None) # None

\* C6: no function that tokenizes the string returns a value when a quote
\* of it is unterminated: the failure reaches the caller instead.
C6_UnterminatedQuoteIsAFailure ==
    pc \in {"sdk", "tools", "config"} => ~HasUnterminatedQuote(claudeArgs)

\* The value of the leftmost --allowedTools occurrence, whatever its style.
RECURSIVE FirstOccurrenceFrom(_, _)
FirstOccurrenceFrom(s, p) ==
    IF p > Len(s) THEN None
    ELSE IF PatternAt(s, p, 1) # None THEN PatternAt(s, p, 1)
    ELSE IF PatternAt(s, p, 2) # None THEN PatternAt(s, p, 2)
    ELSE IF PatternAt(s, p, 3) # None THEN PatternAt(s, p, 3)
    ELSE FirstOccurrenceFrom(s, p + 1)

FirstOccurrenceTools(s) ==
    LET v == FirstOccurrenceFrom(s, 1)
    IN  IF v = None \/ StartsWith(v[1], DashDash) THEN <<>> ELSE SplitTrim(v[1])

\* C7: parseAllowedTools returns the value of the leftmost occurrence of
\* --allowedTools, whatever the quoting of that or of a later occurrence,
\* and nothing when another flag follows the leftmost occurrence.
C7_FirstOccurrenceWins ==
    pc = "tools" => allowedTools[1] = FirstOccurrenceTools(claudeArgs)

\* C8: the result of parseAllowedTools has no empty string.
C8_NoEmptyToolName ==
    pc = "tools" => \A i \in DOMAIN allowedTools[1] : allowedTools[1][i] # <<>>


\* ------------------------------------------------- claims: sanitization

\* A targeted pattern occurs in s.
HasComment(s) == \E i \in 1..Len(s) : CommentCloseAt(s, i) # 0

HasInvisible(s) == \E i \in 1..Len(s) : s[i] \in InvisibleChars

HasAltText(s) ==
    \E i \in 1..Len(s) : ImageAt(s, i) # None /\ ImageAt(s, i)[1][1] > i + 2

HasLinkTitle(s) == \E i \in 1..Len(s) : LinkTitleAt(s, i) # None

HasHiddenAttribute(s) == \E i \in 1..Len(s) : HiddenAttrAt(s, i) # 0

HasEntity(s) == \E i \in 1..Len(s) : EntityAt(s, i) # None

HasToken(s) == \E i \in 1..Len(s) : TokenAt(s, i)

\* An entity of s denotes a code point the output may not hold.
HasInvisibleEntity(s) ==
    \E i \in 1..Len(s) : EntityAt(s, i) # None /\ IsNonPrintable(EntityAt(s, i)[1][2])

Clean(s) ==
    ~(\/ HasComment(s) \/ HasInvisible(s) \/ HasAltText(s) \/ HasLinkTitle(s)
      \/ HasHiddenAttribute(s) \/ HasEntity(s) \/ HasToken(s))

\* C9: sanitizeContent is idempotent: sanitizing what it returned returns
\* the same text, also when decoding or removing one pattern exposes
\* another.
C9_SanitizeIsIdempotent ==
    spc = "twice" => resanitized = sanitized

\* C10: on a text that holds none of the targeted patterns (no comment, no
\* invisible character, no image alt text, no link title, no hidden
\* attribute, no numeric or hex entity, no token) sanitizeContent returns
\* the text as it was.
C10_NoOpOnCleanInput ==
    (spc # "raw" /\ Clean(content)) => sanitized = Some(content)

\* A clean text that still holds an empty-alt image and an unclosed comment
\* opener has been sanitized.
C10_Witness ==
    /\ spc = "once"
    /\ Clean(content)
    /\ \E i \in 1..Len(content) : ImageAt(content, i) # None
    /\ \E i \in 1..Len(content) : SubAt(content, i, CommentOpen)

\* C11: what sanitizeContent returns holds no invisible or control
\* character, also when the input wrote one as a numeric or hex entity,
\* which is decoded after the character filter has run.
C11_NoInvisibleCharacterInOutput ==
    spc # "raw" => ~HasInvisible(sanitized[1])

\* A text with an invisible character written raw and another written as
\* an entity has been sanitized.
C11_Witness ==
    /\ spc = "once"
    /\ HasInvisible(content)
    /\ HasInvisibleEntity(content)

\* C12: what sanitizeContent returns holds no <!-- ... --> span, also when
\* the delimiters only come together once an inner comment is removed or
\* an entity is decoded.
C12_NoCommentInOutput ==
    spc # "raw" => ~HasComment(sanitized[1])

\* ------------------------------------------------- claims: token redaction

\* s[i..j] is a complete token: a classic prefix and exactly 36
\* alphanumerics, or the fine-grained prefix and a long enough suffix,
\* standing as a word of its own.
IsCompleteToken(s, i, j) ==
    /\ ~IsWordChar(CharAt(s, i - 1))
    /\ ~IsWordChar(CharAt(s, j + 1))
    /\ \/ s[i] \in TokenPrefixes /\ j = i + 1 /\ s[j] = "T36"
       \/ /\ s[i] = FineGrainedPrefix
          /\ \A k \in i..j : IsWordChar(s[k])
          /\ RunLen(s, i + 1, j) >= MinFineGrainedSuffix

TokenSpans(s) ==
    {span \in (1..Len(s)) \X (1..Len(s)) :
        span[1] < span[2] /\ IsCompleteToken(s, span[1], span[2])}

\* s with the marker in the place of each complete token and every other
\* character as it was.
RECURSIVE MarkedFrom(_, _)
MarkedFrom(s, k) ==
    IF k > Len(s) THEN <<>>
    ELSE (IF \E span \in TokenSpans(s) : span[1] = k THEN Marker
          ELSE IF \E span \in TokenSpans(s) : span[1] < k /\ k <= span[2] THEN <<>>
          ELSE <<s[k]>>) \o MarkedFrom(s, k + 1)

\* A classic prefix of s is in no complete token.
HasLookAlike(s) ==
    \E i \in 1..Len(s) :
        /\ s[i] \in TokenPrefixes
        /\ \A span \in TokenSpans(s) : i < span[1] \/ i > span[2]

\* C13: redactGitHubTokens puts the marker [REDACTED_GITHUB_TOKEN] in the
\* place of every complete token, wherever it stands and however many there
\* are, and changes nothing else: a bare prefix and a prefix followed by
\* too few or too many characters stay as they were.
C13_ExactlyCompleteTokensRedacted ==
    spc = "redacted" => redacted[1] = MarkedFrom(content, 1)

\* A text with a complete token and a look-alike has been redacted.
C13_Witness ==
    /\ spc = "redacted"
    /\ \E span \in TokenSpans(content) : content[span[1]] \in TokenPrefixes
    /\ HasLookAlike(content)
    /\ redacted[1] # content

\* ------------------------------------------------- claims: installPlugins

\* The entries of the plugins input, trimmed, the empty ones left out.
EntryNames ==
    IF pluginsInput = None THEN <<>>
    ELSE SelectSeq(SplitTrim(pluginsInput[1]), LAMBDA p : p # <<>>)

\* The args of the commands spawned so far, in order.
SpawnedArgs == [k \in 1..Len(children) |-> children[k].args]

\* The commands of a complete installation of names.
ExpectedCommands(names) ==
    IF names = <<>> THEN <<>>
    ELSE << << <<"plugin">>, <<"marketplace">>, <<"add">>,
               <<"https://github.com/anthropics/claude-code.git">> >> >>
         \o [i \in 1..Len(names) |-> << <<"plugin">>, <<"install">>, names[i] >>]

\* C14: when installPlugins returns, it has spawned nothing for an input
\* without a name, and for n names the marketplace add and then one
\* install per name, in the order of the input (n + 1 commands); and a
\* command is spawned only after the one before it closed with code 0.
C14_CommandSequence ==
    /\ ipc = "returned" => SpawnedArgs = ExpectedCommands(EntryNames)
    /\ \A k \in 2..Len(children) :
          children[k - 1].state = "closed" /\ children[k - 1].exit = Some(0)

\* An input of three entries, one of them empty, has been installed.
C14_Witness ==
    /\ ipc = "returned"
    /\ nEntries = 3
    /\ Len(children) = 3
    /\ Len(SplitTrim(pluginsInput[1])) = 3

\* The last command spawned is the one installPlugins rejected with.
RejectedWithLastCommand ==
    (ipc = "rejected" /\ children # <<>>) =>
        /\ installError # None
        /\ installError[1].args = children[Len(children)].args
        /\ LET last == children[Len(children)]
           IN  \/ installError[1].kind = "error" /\ last.state \in {"errored", "closed"}
               \/ /\ installError[1].kind = "exit code"
                  /\ last.state = "closed" /\ last.exit \notin {None, Some(0)}
               \/ /\ installError[1].kind = "process terminated by signal"
                  /\ last.state = "closed" /\ last.exit = None

\* C15: once a command closes with a code other than 0, is terminated by
\* a signal or emits an error, installPlugins rejects with the error of
\* that command, and from then on no command is spawned, whatever events
\* the children still emit.
C15_StopsOnFirstError ==
    /\ []RejectedWithLastCommand
    /\ [][ipc = "rejected" =>
            /\ ipc' = "rejected"
            /\ installError' = installError
            /\ Len(children') = Len(children)]_vars
    /\ [][(ipc = "awaiting" /\ ipc' = "awaiting") =>
            \A k \in 1..Len(children) :
                children'[k].state = "closed" => children'[k].exit = Some(0)]_vars

\* installPlugins has rejected with the spawn error of the first install,
\* names were left to install, and the child has closed since.
C15_Witness ==
    /\ ipc = "rejected"
    /\ Len(children) = 2
    /\ Len(plugins) >= 2
    /\ installError[1].kind = "error"
    /\ children[2].state = "closed"
    /\ children[2].exit = Some(0)

\* An entry of the plugins input fails validatePluginName.
HasInvalidEntry ==
    \E i \in 1..Len(EntryNames) : validatePluginName(EntryNames[i]) # ""

\* C16: when an entry of the list fails validatePluginName, at whatever
\* position, installPlugins throws and spawns no process at all, not even
\* the marketplace add.
C16_ValidationBeforeAnySpawn ==
    (ipc # "input" /\ HasInvalidEntry) =>
        /\ ipc = "rejected"
        /\ children = <<>>
        /\ installError # None
        /\ installError[1].kind = "Invalid plugin name format"

\* An input whose last entry is invalid, after valid ones, has been
\* rejected.
C16_Witness ==
    /\ ipc = "rejected"
    /\ nEntries = 3
    /\ validatePluginName(EntryNames[1]) = ""
    /\ Len(EntryNames) = 3
    /\ validatePluginName(EntryNames[3]) # ""

\* Two dots in a row, a dot before or after a slash, or a character other
\* than letters, digits, @, -, _, / and the dot.
IsForbiddenName(s) ==
    \/ \E i \in 1..Len(s) : SubAt(s, i, <<".", ".">>)
    \/ \E i \in 1..Len(s) : SubAt(s, i, <<".", "/">>)
    \/ \E i \in 1..Len(s) : SubAt(s, i, <<"/", ".">>)
    \/ \E i \in 1..Len(s) :
          s[i] \notin {"p", "q", "e", "1", "@", DASH, "_", "/", "."}

\* A name of allowed characters whose dots each stand between two letters
\* or digits, as in a version number.
HasOnlySingleDots(s) ==
    /\ s # <<>>
    /\ ~IsForbiddenName(s)
    /\ \A i \in 1..Len(s) :
          s[i] = "." => /\ CharAt(s, i - 1) \in {"p", "q", "e", "1"}
                        /\ CharAt(s, i + 1) \in {"p", "q", "e", "1"}

\* C17: validatePluginName throws for every name with two dots in a row,
\* with ./ or /. in it, or with a character outside letters, digits, @, -,
\* _, / and the dot, and returns for a name whose dots are single.
C17_RejectsTraversalAcceptsSingleDots ==
    vpc = "validated" =>
        /\ IsForbiddenName(pluginName) => nameError # ""
        /\ HasOnlySingleDots(pluginName) => nameError = ""

\* ------------------------------- claims: validateEnvironmentVariables

\* The providers whose flag is "1".
ActiveProviders == {name \in EnvFlags : env[name] = Some("1")}

\* A variable is set to a value.
IsProvided(name) == env[name] # None /\ env[name] # Some("")

\* The requirements of each provider are met.
BedrockRequirementsMet ==
    /\ IsProvided("AWS_REGION")
    /\ \/ IsProvided("AWS_BEARER_TOKEN_BEDROCK")
       \/ IsProvided("AWS_ACCESS_KEY_ID") /\ IsProvided("AWS_SECRET_ACCESS_KEY")

VertexRequirementsMet ==
    IsProvided("ANTHROPIC_VERTEX_PROJECT_ID") /\ IsProvided("CLOUD_ML_REGION")

FoundryRequirementsMet ==
    IsProvided("ANTHROPIC_FOUNDRY_RESOURCE") \/ IsProvided("ANTHROPIC_FOUNDRY_BASE_URL")

ErrorsThrown == {envErrors[i] : i \in 1..Len(envErrors)}

\* C18: with more than one of the three provider flags at "1",
\* validateEnvironmentVariables throws, and the message holds the 'Cannot
\* use multiple providers simultaneously' error, for every pair and for
\* all three, also when every variable the providers require is set.
C18_MultipleProvidersRejected ==
    (epc = "validated" /\ Cardinality(ActiveProviders) > 1) =>
        \E i \in 1..Len(envErrors) : envErrors[i] = MultipleProvidersError

\* Vertex and Foundry are both selected, with all they require.
C18_Witness ==
    /\ epc = "validated"
    /\ ActiveProviders = {"CLAUDE_CODE_USE_VERTEX", "CLAUDE_CODE_USE_FOUNDRY"}
    /\ VertexRequirementsMet
    /\ FoundryRequirementsMet
    /\ BedrockRequirementsMet

\* The requirements the selected provider misses, as the errors name them.
UnmetRequirements ==
    IF ActiveProviders = {}
    THEN {m \in {"Either ANTHROPIC_API_KEY or CLAUDE_CODE_OAUTH_TOKEN is required when using direct Anthropic API."} :
             ~IsProvided("ANTHROPIC_API_KEY") /\ ~IsProvided("CLAUDE_CODE_OAUTH_TOKEN")}
    ELSE IF ActiveProviders = {"CLAUDE_CODE_USE_BEDROCK"}
    THEN {m \in {"AWS_REGION is required when using AWS Bedrock."} :
             ~IsProvided("AWS_REGION")}
         \cup
         {m \in {"Either AWS_BEARER_TOKEN_BEDROCK or both AWS_ACCESS_KEY_ID and AWS_SECRET_ACCESS_KEY are required when using AWS Bedrock."} :
             /\ ~IsProvided("AWS_BEARER_TOKEN_BEDROCK")
             /\ ~(IsProvided("AWS_ACCESS_KEY_ID") /\ IsProvided("AWS_SECRET_ACCESS_KEY"))}
    ELSE IF ActiveProviders = {"CLAUDE_CODE_USE_VERTEX"}
    THEN {m \in {"ANTHROPIC_VERTEX_PROJECT_ID is required when using Google Vertex AI."} :
             ~IsProvided("ANTHROPIC_VERTEX_PROJECT_ID")}
         \cup
         {m \in {"CLOUD_ML_REGION is required when using Google Vertex AI."} :
             ~IsProvided("CLOUD_ML_REGION")}
    ELSE {m \in {"Either ANTHROPIC_FOUNDRY_RESOURCE or ANTHROPIC_FOUNDRY_BASE_URL is required when using Microsoft Foundry."} :
             ~FoundryRequirementsMet}

\* C19: with at most one provider flag at "1", validateEnvironmentVariables
\* returns exactly when what the selected provider requires is there, and
\* otherwise throws one error that lists every unmet requirement, each
\* once.
C19_SingleProviderRequirements ==
    (epc = "validated" /\ Cardinality(ActiveProviders) <= 1) =>
        /\ ErrorsThrown = UnmetRequirements
        /\ Len(envErrors) = Cardinality(UnmetRequirements)

\* Bedrock alone is selected and misses both its requirements, the region
\* being set to the empty string.
C19_Witness ==
    /\ epc = "validated"
    /\ ActiveProviders = {"CLAUDE_CODE_USE_BEDROCK"}
    /\ env["AWS_REGION"] = Some("")
    /\ IsProvided("AWS_ACCESS_KEY_ID")
    /\ Len(envErrors) = 2

\* --------------------------------------------------- claims: detectMode

\* C20: with a prompt input that is not empty, detectMode returns "agent",
\* whatever the event and whether or not its content mentions @claude.
C20_PromptSelectsAgent ==
    (dpc = "detected" /\ context.prompt # None /\ Len(context.prompt[1]) > 0) =>
        mode = "agent"

\* A comment that mentions @claude arrived with a prompt, and the mode has
\* been detected.
C20_Witness ==
    /\ dpc = "detected"
    /\ context.eventName = "issue_comment"
    /\ context.containsTrigger
    /\ context.prompt = Some(<<"text">>)


\* ------------------------------------------------ claims: mode detection 2

\* No prompt was provided: the input is absent or the empty string.
NoPromptGiven == context.prompt = None \/ context.prompt = Some(<<>>)

\* C21: with no prompt and the trigger phrase present, detectMode returns
\* "tag" for every entity event type: issue comments, review comments,
\* reviews, issues and pull requests.
C21_MentionSelectsTag ==
    (/\ dpc \in {"detected", "triggered"}
     /\ NoPromptGiven
     /\ context.containsTrigger
     /\ context.eventName \in {"issue_comment", "pull_request_review_comment",
                               "pull_request_review", "issues", "pull_request"})
        => mode = "tag"

ResultsWithOutput ==
    IF executionFile.kind # "array" THEN {}
    ELSE {i \in 1..Len(executionFile.messages) :
             /\ executionFile.messages[i].type = "result"
             /\ executionFile.messages[i].structured_output # None
             /\ executionFile.messages[i].structured_output[1].kind = "object"}

\* C23: parseAndSetStructuredOutputs sets structured_output exactly once, to
\* the JSON text of the structured_output of a result message, when the
\* execution file has a result message with one ({} included); otherwise
\* (file missing, not JSON, no result message, no structured_output) it
\* rejects and sets no output.
C23_StructuredOutputSetOnceOrRejected ==
    xpc = "done" =>
        IF ResultsWithOutput # {}
        THEN /\ structuredError = ""
             /\ Len(outputs) = 1
             /\ outputs[1].name = "structured_output"
             /\ \E i \in ResultsWithOutput :
                   outputs[1].value =
                       JSONstringify(executionFile.messages[i].structured_output[1])
        ELSE /\ structuredError # ""
             /\ outputs = <<>>

C23_Witness ==
    /\ xpc = "done"
    /\ Len(executionFile.messages) = 3
    /\ executionFile.messages[2].type = "result"
    /\ executionFile.messages[2].structured_output = Some(JsonObject(<<>>))
    /\ executionFile.messages[3].type = "result"
    /\ executionFile.messages[3].structured_output = None
    /\ outputs = <<SetOutput("structured_output", <<"{", "}">>)>>
    /\ structuredError = ""


\* ------------------------------------------- claims: the flag table again

\* The walk over the tokens as stated: the next token is the flag's value
\* whenever it exists and does not start with "--", the empty token included.
RECURSIVE StatedWalk(_, _, _)
StatedWalk(toks, i, result) ==
    IF i > Len(toks) THEN result
    ELSE IF StartsWith(toks[i], DashDash)
         THEN LET flag == SubSeq(toks[i], 3, Len(toks[i]))
              IN  IF i + 1 <= Len(toks) /\ ~StartsWith(toks[i + 1], DashDash)
                  THEN StatedWalk(toks, i + 2,
                                  Put(result, flag, SetValue(result, flag, toks[i + 1])))
                  ELSE StatedWalk(toks, i + 1, Put(result, flag, None))
    ELSE StatedWalk(toks, i + 1, result)

\* C24: in the table of parseClaudeArgsToExtraArgs a flag has the next token
\* as its value whenever that token exists and does not start with "--",
\* whatever its content (the empty token of "" included), and null otherwise.
C24_NextTokenConsumedAsValue ==
    pc = "sdk" => FlagTable = StatedWalk(ArgTokens, 1, EmptyTable)


\* ------------------------------------------- claims: the argument vector

\* C25: the claudeArgs of prepareRunConfig are "-p", then the tokens of the
\* user's claudeArgs in their order, then --verbose, --output-format,
\* stream-json, with nothing after them.
C25_PromptFirstBaseArgsLast ==
    pc = "config" =>
        config[1].claudeArgs =
            << <<"-", "p">> >>
                \o ArgTokens
                \o << <<"-", "-", "verbose">>, <<"-", "-", "output-format">>,
                      <<"stream-json">> >>

\* The user gave several tokens, one of them --model with a value.
C25_Witness ==
    /\ pc = "config"
    /\ Len(ArgTokens) >= 3
    /\ \E i \in 1..(Len(ArgTokens) - 1) :
          ArgTokens[i] = <<"-", "-", "model">> /\ ArgTokens[i + 1] = <<"Edit", ",", "Read">>
    /\ Len(config[1].claudeArgs) = Len(ArgTokens) + 4


\* ----------------------------------------- claims: the output sanitizers

\* C26: for every message and both values of showFullOutput,
\* sanitizeSdkOutput returns what sanitizeJsonOutput returns for the same
\* message, also for init messages whose model is absent, empty or
\* undefined.
C26_SdkSanitizerMatchesCli ==
    opc = "sanitized" => sdkOutput = cliOutput


\* --------------------------------------------- claims: the console output

\* The whitelisted fields of a line: type and subtype of a message, the
\* model of an init message, the summary fields of a result message.
WhitelistedView(line) ==
    IF line.kind # "json" THEN <<line.kind>>
    ELSE IF line.obj.type = "\"system\"" /\ line.obj.subtype = "\"init\""
         THEN <<"json", line.obj.type, line.obj.subtype, line.obj.model>>
    ELSE IF line.obj.type = "\"result\""
         THEN <<"json", line.obj.type, line.obj.subtype, line.obj.is_error,
                line.obj.num_turns>>
    ELSE <<"json", line.obj.type, line.obj.subtype>>

ChunksAgree ==
    /\ Len(chunkA) = Len(chunkB)
    /\ \A i \in 1..Len(chunkA) : WhitelistedView(chunkA[i]) = WhitelistedView(chunkB[i])

\* A line that is not JSON, or a message that is neither init nor result.
IsSuppressedLine(line) ==
    \/ line.kind # "json"
    \/ /\ line.obj.type # "\"result\""
       /\ ~(line.obj.type = "\"system\"" /\ line.obj.subtype = "\"init\"")

ConclusionIsSuccess ==
    \E i \in 1..Len(outputs) :
        outputs[i].name = "conclusion" /\ outputs[i].value = <<"success">>

StructuredOutputWasSet ==
    \E i \in 1..Len(outputs) : outputs[i].name = "structured_output"

\* C28: runClaude sets conclusion "success" only when the process exited
\* with code 0 and, with --json-schema, a structured output was set; never
\* after a signal, a spawn error or a non-zero code.
C28_SuccessOnlyAfterExitZero ==
    (rpc = "done" /\ ConclusionIsSuccess) =>
        /\ endedBy = "exit"
        /\ closeCode = Some(0)
        /\ runJsonSchema => StructuredOutputWasSet


\* ----------------------------------------------- claims: repeated flags

\* C29: for every claudeArgs string the hasJsonSchema of runClaude (the
\* string includes "--json-schema") is the hasJsonSchema of parseSdkOptions
\* (json-schema is a key of the flag table).
C29_BothPathsAgreeOnJsonSchema ==
    pc = "sdk" => parsed[1].hasJsonSchema = hasJsonSchema(Some(claudeArgs))

\* The positions of the tokens that are flags outside the accumulating ones.
ScalarFlagPositions ==
    {i \in 1..Len(ArgTokens) :
        /\ StartsWith(ArgTokens[i], DashDash)
        /\ SubSeq(ArgTokens[i], 3, Len(ArgTokens[i])) \notin ACCUMULATING_FLAGS}

IsLastOccurrence(i) ==
    \A j \in ScalarFlagPositions : ArgTokens[j] = ArgTokens[i] => j <= i

\* The value of the occurrence at i: the next token when there is one that
\* does not start with "--", null otherwise.
ValueOfOccurrence(i) ==
    IF i + 1 <= Len(ArgTokens) /\ ~StartsWith(ArgTokens[i + 1], DashDash)
    THEN Some(ArgTokens[i + 1])
    ELSE None

\* C30: a flag outside allowedTools and disallowedTools that occurs several
\* times has one entry in the flag table, the value of its last occurrence
\* (null when that occurrence has none).
C30_LastOccurrenceWins ==
    pc = "sdk" =>
        \A i \in ScalarFlagPositions :
            IsLastOccurrence(i) =>
                LET flag == SubSeq(ArgTokens[i], 3, Len(ArgTokens[i])) IN
                /\ flag \in DOMAIN FlagTable
                /\ FlagTable[flag] = ValueOfOccurrence(i)

============================================================================
